---- MODULE Spec2Model ----
(***************************************************************************)
(* A model of iter-utils (src/src/iter-utils/iter-utils.ts): the pull      *)
(* iterators of the host language (array iterators, generator objects) as  *)
(* objects of a heap, the library's operators as the generator bodies      *)
(* they are, and client code that applies an operator and pulls from the   *)
(* result.                                                                 *)
(*                                                                         *)
(* A value is a record with a single field whose name is its type:         *)
(*   [num |-> n]  [str |-> <<characters>>]  [bool |-> b]                   *)
(*   [undef |-> 0]  [null |-> 0]                                           *)
(*   [arr |-> <<values>>]  [obj |-> <<entries>>]  [map |-> <<entries>>]    *)
(*   [set |-> <<values>>]  [ref |-> id] (an object of the heap that has a  *)
(*   next method).                                                         *)
(* The heap is a sequence of iterator objects; an object's id is its       *)
(* index.  log is a history variable: one event per next() call answered   *)
(* and one per callback invoked.                                           *)
(***************************************************************************)
EXTENDS Integers, Sequences, FiniteSets, TLC

VARIABLES heap, log, inp, pc, root, out, fin

vars == <<heap, log, inp, pc, root, out, fin>>

\* ------------------------------------------------------------------ bounds
MaxLen == 3
MaxVal == 2
MaxN == 4
MaxPulls == 6
MaxSrc == 2
MaxOps == 2
MaxWidth == 2
\* next() calls one library call may make before it counts as not returning;
\* a call that returns makes at most 12 (16 with three operators in a chain).
Fuel == 18

\* ------------------------------------------------------------------ values
Num(n) == [num |-> n]
Str(s) == [str |-> s]
Undef == [undef |-> 0]
Null == [null |-> 0]
Arr(s) == [arr |-> s]
Obj(s) == [obj |-> s]
MapV(s) == [map |-> s]
SetV(s) == [set |-> s]
Ref(id) == [ref |-> id]

IsNum(v) == DOMAIN v = {"num"}
IsStr(v) == DOMAIN v = {"str"}
IsUndef(v) == DOMAIN v = {"undef"}
IsNull(v) == DOMAIN v = {"null"}
IsArr(v) == DOMAIN v = {"arr"}
IsObj(v) == DOMAIN v = {"obj"}
IsMap(v) == DOMAIN v = {"map"}
IsSet(v) == DOMAIN v = {"set"}
IsRef(v) == DOMAIN v = {"ref"}

\* A Map made by the library (new Map()): an object of the heap without a
\* next method, mutated in place.
MapObj(id) == [mapobj |-> id]
IsMapObj(v) == DOMAIN v = {"mapobj"}

Bool(b) == [bool |-> b]
IsBool(v) == DOMAIN v = {"bool"}

\* Who calls next(): a generator object of the heap, Ref(id), or a function
\* of the library or of the client that runs to its return, Fn(name).
Fn(name) == [fn |-> name]
Client == Fn("client")

\* Sequences over S of length at most n.
SeqUpTo(S, n) == UNION {[1..k -> S] : k \in 0..n}

Min(a, b) == IF a <= b THEN a ELSE b

\* ----------------------------------------------------------- heap objects
\* %ArrayIteratorPrototype%: next only.  Array.prototype.values(),
\* Array.prototype[Symbol.iterator](), String.prototype[Symbol.iterator]()
\* and Map.prototype.entries() all give a cursor over a list of values.
ArrayIter(items) == [k |-> "array", items |-> items, idx |-> 0]

\* A generator object is created suspended at its start: its body has not run.
IterateGen(fn, initialValue) ==
  [k |-> "iterate", fn |-> fn, cur |-> initialValue, st |-> "start"]

TakeGen(numItemsToTake, o) ==
  [k |-> "take", n |-> numItemsToTake, src |-> o, st |-> "start", up |-> 0, i |-> 0]

\* map(mapFn), tap(sideEffectFn), filter(predFn) and remove(predFn):
\* generators whose body is one for-of loop that calls fn on every item.
ForOfGen(kind, fn, itr) ==
  [k |-> kind, fn |-> fn, src |-> itr, st |-> "start", up |-> 0]

\* dropWhile(predFn): the loop and the flag dropEnded.
DropWhileGen(predFn, itr) ==
  [k |-> "dropWhile", fn |-> predFn, src |-> itr, st |-> "start", up |-> 0,
   dropEnded |-> FALSE]

\* interpose(separator): the loop and the flag first; atSep says that the
\* generator is suspended at `yield separator`, with the item it holds.
InterposeGen(separator, itr) ==
  [k |-> "interpose", sep |-> separator, src |-> itr, st |-> "start", up |-> 0,
   first |-> TRUE, atSep |-> FALSE, it |-> Undef]

\* new Map(): entries in insertion order, each <<key, value>>.
NewMapObj == [k |-> "mapobj", entries |-> <<>>]

\* map.entries() (also map[Symbol.iterator]()): a cursor over the entries of
\* the Map object as they are when it is asked; it has next only.
MapIter(id) == [k |-> "mapiter", map |-> id, idx |-> 0]

\* The generators that are suspended inside a for-of loop over their source.
ForOfKinds == {"map", "tap", "filter", "remove", "dropWhile", "interpose"}

ZipGen(iterators) == [k |-> "zip", srcs |-> iterators, st |-> "start", ups |-> <<>>]

\* buf and j: the nextItems of the current round and the one last yielded.
InterleaveGen(iterators) ==
  [k |-> "interleave", srcs |-> iterators, st |-> "start", buf |-> <<>>, j |-> 0]

\* flatten's inner generator f(itr_); inner is the f it delegates to (yield*).
FlatGen(itr_) == [k |-> "flat", src |-> itr_, st |-> "start", up |-> 0, inner |-> 0]

\* The machine a library call runs on: the heap, the history, and the steps
\* left before the call is given up as not returning.
Machine(h, l) == [h |-> h, log |-> l, fuel |-> Fuel]

Alloc(m, o) == [m EXCEPT !.h = Append(@, o)]
SetObj(m, id, o) == [m EXCEPT !.h[id] = o]

\* What next() answers (s = "yield" | "done"), or how it fails to answer:
\* "throw" (an exception propagates) or "hang" (it never returns).
Yield(m, v) == [m |-> m, s |-> "yield", val |-> v]
Done(m) == [m |-> m, s |-> "done", val |-> Undef]
Throw(m) == [m |-> m, s |-> "throw", val |-> Undef]
Hang(m) == [m |-> m, s |-> "hang", val |-> Undef]

\* ------------------------------------------------------------- callbacks
\* Caller-supplied functions.  inc is the library's own export; the others
\* are what the tests and the documentation hand to the operators.
IncFn == [f |-> "inc"]
ConstFn(v) == [f |-> "const", c |-> v]
EvenFn == [f |-> "even"]
\* (i) => i % 2, a grouping key
ParityFn == [f |-> "parity"]
\* a side effect that returns nothing, as tap's console.log
NoteFn == [f |-> "note"]
\* a function with state of its own: it answers how often it has been called
TickFn == [f |-> "tick"]
\* (v, acc) => acc + v, a reducer; its argument is the pair [v, acc]
SumFn == [f |-> "sum"]
\* fn, except that it raises when it is handed the value v
FaultyFn(fn, v) == [f |-> "faulty", g |-> fn, at |-> v]

RECURSIVE Raises(_, _), Result(_, _, _)

\* The argument a function decides on: a reducer looks at the item.
Raises(fn, arg) ==
  CASE fn.f = "faulty" -> arg = fn.at \/ (IsArr(arg) /\ arg.arr # <<>> /\ arg.arr[1] = fn.at)
                          \/ Raises(fn.g, arg)
    [] fn.f \in {"inc", "const", "even", "parity", "note", "tick", "sum"} -> FALSE
    [] OTHER -> TRUE

\* inc: (i) => (i !== undefined ? i + 1 : 1)
Result(l, fn, arg) ==
  CASE fn.f = "inc" -> IF IsUndef(arg) THEN Num(1) ELSE Num(arg.num + 1)
    [] fn.f = "const" -> fn.c
    [] fn.f = "even" -> Bool(arg.num % 2 = 0)
    [] fn.f = "parity" -> Num(arg.num % 2)
    [] fn.f = "note" -> Undef
    [] fn.f = "tick" ->
         Num(Len(SelectSeq(l, LAMBDA e : e.ev = "call" /\ e.fn = "tick")) + 1)
    [] fn.f = "sum" -> Num(arg.arr[2].num + arg.arr[1].num)
    [] fn.f = "faulty" -> Result(l, fn.g, arg)

\* A caller-supplied function applied to one argument (a reducer: to the
\* pair of its two).  The history records the call and how it ended.
Call(m, fn, arg, by) ==
  LET s == IF Raises(fn, arg) THEN "throw" ELSE "ret"
      v == IF s = "throw" THEN Undef ELSE Result(m.log, fn, arg)
  IN [m |-> [m EXCEPT !.log = Append(@, [ev |-> "call", fn |-> fn.f, by |-> by,
                                          arg |-> arg, s |-> s, val |-> v])],
      s |-> s, val |-> v]

\* ------------------------------------------------------------------ iter
\* typeof iterable["next"] === "function"
HasNext(v) == IsRef(v)

\* iterable[Symbol.iterator] exists: arrays, strings, maps and sets.
IsIterable(v) == IsArr(v) \/ IsStr(v) \/ IsMap(v) \/ IsSet(v)

\* The items iterable[Symbol.iterator]() walks: an array's or a set's items,
\* a string's characters, a map's [key, value] entries.
Elements(v) ==
  CASE IsArr(v) -> v.arr
    [] IsSet(v) -> v.set
    [] IsMap(v) -> [i \in DOMAIN v.map |-> Arr(v.map[i])]
    [] IsStr(v) -> [i \in DOMAIN v.str |-> Str(<<v.str[i]>>)]

\* Object.entries(iterable): an object's own [key, value] pairs (its keys
\* here are names, which keep insertion order); a number or a boolean has none.
Entries(v) ==
  IF IsObj(v) THEN [i \in DOMAIN v.obj |-> Arr(v.obj[i])] ELSE <<>>

NewIter(m, items) ==
  [m |-> Alloc(m, ArrayIter(items)), s |-> "ret", id |-> Len(m.h) + 1]

iter(m, iterable) ==
  IF IsUndef(iterable) THEN NewIter(m, <<>>)
  ELSE IF IsNull(iterable) THEN [m |-> m, s |-> "throw", id |-> 0]
  ELSE IF HasNext(iterable) THEN [m |-> m, s |-> "ret", id |-> iterable.ref]
  ELSE IF IsMapObj(iterable)
  THEN [m |-> Alloc(m, MapIter(iterable.mapobj)), s |-> "ret", id |-> Len(m.h) + 1]
  ELSE IF IsIterable(iterable) THEN NewIter(m, Elements(iterable))
  ELSE NewIter(m, Entries(iterable))

\* ------------------------------------------------------- the pull protocol
\* A call's answer is bound as the parameter of a local operator (Body(r),
\* Loop(r), ...), so that each call is written, and evaluated, once.
RECURSIVE Pull(_, _, _), Resume(_, _), Return(_, _), ResumeForOf(_, _), ResumeFlat(_, _)
RECURSIVE ResumeDropWhile(_, _)
RECURSIVE IterAll(_, _, _), PullAll(_, _, _, _), InterleaveRound(_, _, _, _)

\* IteratorClose: call return() when the iterator has that method (generator
\* objects have it, array iterators do not).
Close(m, id) == IF m.h[id].k \in {"array", "mapiter"} THEN m ELSE Return(m, id)

\* take's loop condition.
TakeGuardOffByOne(i, numItemsToTake) == i <= numItemsToTake
TakeGuard(i, numItemsToTake) == i < numItemsToTake

ResumeArray(m, id) ==
  LET o == m.h[id] IN
  IF o.idx < Len(o.items)
  THEN Yield(SetObj(m, id, [o EXCEPT !.idx = @ + 1]), o.items[o.idx + 1])
  ELSE Done(m)

ResumeMapIter(m, id) ==
  LET o == m.h[id]
      entries == m.h[o.map].entries
  IN IF o.idx < Len(entries)
     THEN Yield(SetObj(m, id, [o EXCEPT !.idx = @ + 1]), Arr(entries[o.idx + 1]))
     ELSE Done(m)

ResumeIterate(m, id) ==
  LET o == m.h[id] IN
  CASE o.st = "start" -> Yield(SetObj(m, id, [o EXCEPT !.st = "susp"]), o.cur)
    [] o.st = "susp" ->
         LET c == Call(m, o.fn, o.cur, Ref(id)) IN
         IF c.s = "throw" THEN Throw(SetObj(c.m, id, [o EXCEPT !.st = "done"]))
         ELSE Yield(SetObj(c.m, id, [o EXCEPT !.cur = c.val]), c.val)
    [] OTHER -> Done(m)

ResumeTake(m, id) ==
  LET o == m.h[id]
      it == IF o.st = "start" THEN iter(m, o.src) ELSE [m |-> m, s |-> "ret", id |-> o.up]
      i == IF o.st = "start" THEN 0 ELSE o.i + 1
      fin_ == [o EXCEPT !.st = "done", !.up = it.id, !.i = i]
  IN IF o.st = "done" THEN Done(m)
     ELSE IF it.s = "throw" THEN Throw(SetObj(it.m, id, fin_))
     ELSE IF ~TakeGuard(i, o.n) THEN Done(SetObj(it.m, id, fin_))
     ELSE LET Body(r) ==
                CASE r.s = "yield" ->
                       Yield(SetObj(r.m, id, [o EXCEPT !.st = "susp", !.up = it.id, !.i = i]), r.val)
                  [] r.s = "done" -> Done(SetObj(r.m, id, fin_))
                  [] r.s = "throw" -> Throw(SetObj(r.m, id, fin_))
                  [] OTHER -> r
          IN Body(Pull(it.m, it.id, Ref(id)))

\* if (v): false, 0, "", undefined and null are falsy.
Truthy(v) ==
  CASE IsBool(v) -> v.bool
    [] IsNum(v) -> v.num # 0
    [] IsStr(v) -> v.str # <<>>
    [] IsUndef(v) \/ IsNull(v) -> FALSE
    [] OTHER -> TRUE

\* Whether the loop body yields for an item, given what fn answered (c), and
\* what it yields: map the answer, the others the item.
KeepsAll(kind, c) == TRUE
Keeps(kind, c) ==
  CASE kind = "filter" -> Truthy(c.val)
    [] kind = "remove" -> ~Truthy(c.val)
    [] OTHER -> TRUE
Emits(kind, it, c) == IF kind = "map" THEN c.val ELSE it

\* function* (itr) { const itr_ = iter(itr); for (let it of itr_) { ... } }
\* A for-of loop over an iterator pulls it; an exception raised by next()
\* leaves the loop without closing the iterator, one raised in the body
\* closes it.
ResumeForOf(m, id) ==
  LET o == m.h[id]
      it == IF o.st = "start" THEN iter(m, o.src) ELSE [m |-> m, s |-> "ret", id |-> o.up]
      fin_ == [o EXCEPT !.st = "done", !.up = it.id]
      on == [o EXCEPT !.st = "susp", !.up = it.id]
  IN IF o.st = "done" THEN Done(m)
     ELSE IF it.s = "throw" THEN Throw(SetObj(it.m, id, fin_))
     ELSE LET Body(r, c) ==
                IF c.s = "throw" THEN Throw(SetObj(Close(c.m, it.id), id, fin_))
                ELSE IF Keeps(o.k, c) THEN Yield(SetObj(c.m, id, on), Emits(o.k, r.val, c))
                ELSE ResumeForOf(SetObj(c.m, id, on), id)
              Loop(r) ==
                CASE r.s = "done" -> Done(SetObj(r.m, id, fin_))
                  [] r.s = "throw" -> Throw(SetObj(r.m, id, fin_))
                  [] r.s = "hang" -> r
                  [] OTHER -> Body(r, Call(r.m, o.fn, r.val, Ref(id)))
          IN Loop(Pull(it.m, it.id, Ref(id)))

\* if (!predFn(it) || dropEnded) { dropEnded = true; yield it; }
DropWhileYieldsIfFails(c, dropEnded) == ~Truthy(c.val)
DropWhileYields(c, dropEnded) == ~Truthy(c.val) \/ dropEnded

ResumeDropWhile(m, id) ==
  LET o == m.h[id]
      it == IF o.st = "start" THEN iter(m, o.src) ELSE [m |-> m, s |-> "ret", id |-> o.up]
      fin_ == [o EXCEPT !.st = "done", !.up = it.id]
      on == [o EXCEPT !.st = "susp", !.up = it.id]
  IN IF o.st = "done" THEN Done(m)
     ELSE IF it.s = "throw" THEN Throw(SetObj(it.m, id, fin_))
     ELSE LET Body(r, c) ==
                IF c.s = "throw" THEN Throw(SetObj(Close(c.m, it.id), id, fin_))
                ELSE IF DropWhileYields(c, o.dropEnded)
                THEN Yield(SetObj(c.m, id, [on EXCEPT !.dropEnded = TRUE]), r.val)
                ELSE ResumeDropWhile(SetObj(c.m, id, on), id)
              Loop(r) ==
                CASE r.s = "done" -> Done(SetObj(r.m, id, fin_))
                  [] r.s = "throw" -> Throw(SetObj(r.m, id, fin_))
                  [] r.s = "hang" -> r
                  [] OTHER -> Body(r, Call(r.m, o.fn, r.val, Ref(id)))
          IN Loop(Pull(it.m, it.id, Ref(id)))

\* for (let it of itr_) { if (!first) yield separator; yield it; first = false; }
ResumeInterpose(m, id) ==
  LET o == m.h[id]
      it == IF o.st = "start" THEN iter(m, o.src) ELSE [m |-> m, s |-> "ret", id |-> o.up]
      fin_ == [o EXCEPT !.st = "done", !.up = it.id]
      on == [o EXCEPT !.st = "susp", !.up = it.id]
  IN IF o.st = "done" THEN Done(m)
     ELSE IF o.atSep
     THEN Yield(SetObj(m, id, [o EXCEPT !.atSep = FALSE, !.it = Undef]), o.it)
     ELSE IF it.s = "throw" THEN Throw(SetObj(it.m, id, fin_))
     ELSE LET Loop(r) ==
                CASE r.s = "done" -> Done(SetObj(r.m, id, fin_))
                  [] r.s = "throw" -> Throw(SetObj(r.m, id, fin_))
                  [] r.s = "hang" -> r
                  [] OTHER ->
                       IF ~o.first
                       THEN Yield(SetObj(r.m, id, [on EXCEPT !.atSep = TRUE, !.it = r.val]), o.sep)
                       ELSE Yield(SetObj(r.m, id, [on EXCEPT !.first = FALSE]), r.val)
          IN Loop(Pull(it.m, it.id, Ref(id)))

\* iterators.map(iter), left to right.
IterAll(m, iterators, ids) ==
  IF Len(ids) = Len(iterators) THEN [m |-> m, s |-> "ret", ids |-> ids]
  ELSE LET it == iter(m, iterators[Len(ids) + 1]) IN
       IF it.s = "throw" THEN [m |-> it.m, s |-> "throw", ids |-> ids]
       ELSE IterAll(it.m, iterators, Append(ids, it.id))

\* iters.map((itr) => itr.next()): every iterator is pulled, left to right.
PullAll(m, ids, by, got) ==
  IF Len(got) = Len(ids) THEN [m |-> m, s |-> "ret", items |-> got]
  ELSE LET Rest(r) ==
             IF r.s \in {"throw", "hang"} THEN [m |-> r.m, s |-> r.s, items |-> got]
             ELSE PullAll(r.m, ids, by, Append(got, [done |-> r.s = "done", value |-> r.val]))
       IN Rest(Pull(m, ids[Len(got) + 1], by))

\* nextItems.some((nextItem) => nextItem.done)
EveryDone(nextItems) == \A i \in DOMAIN nextItems : nextItems[i].done
SomeDone(nextItems) == \E i \in DOMAIN nextItems : nextItems[i].done

Values(nextItems) == [i \in DOMAIN nextItems |-> nextItems[i].value]

ResumeZip(m, id) ==
  LET o == m.h[id]
      its == IF o.st = "start" THEN IterAll(m, o.srcs, <<>>)
             ELSE [m |-> m, s |-> "ret", ids |-> o.ups]
      fin_ == [o EXCEPT !.st = "done", !.ups = its.ids]
  IN IF o.st = "done" THEN Done(m)
     ELSE IF its.s = "throw" THEN Throw(SetObj(its.m, id, fin_))
     ELSE LET Body(n) ==
                CASE n.s = "throw" -> Throw(SetObj(n.m, id, fin_))
                  [] n.s = "hang" -> Hang(n.m)
                  [] OTHER ->
                       IF SomeDone(n.items) THEN Done(SetObj(n.m, id, fin_))
                       ELSE Yield(SetObj(n.m, id, [o EXCEPT !.st = "susp", !.ups = its.ids]),
                                  Arr(Values(n.items)))
          IN Body(PullAll(its.m, its.ids, Ref(id), <<>>))

\* interleave normalizes each source inside the loop, once per round:
\* iterators.map((itr) => { const itr_ = iter(itr); return itr_.next(); })
InterleaveRound(m, iterators, by, got) ==
  IF Len(got) = Len(iterators) THEN [m |-> m, s |-> "ret", items |-> got]
  ELSE LET it == iter(m, iterators[Len(got) + 1]) IN
       IF it.s = "throw" THEN [m |-> it.m, s |-> "throw", items |-> got]
       ELSE LET Rest(r) ==
                  IF r.s \in {"throw", "hang"} THEN [m |-> r.m, s |-> r.s, items |-> got]
                  ELSE InterleaveRound(r.m, iterators, by,
                                       Append(got, [done |-> r.s = "done", value |-> r.val]))
            IN Rest(Pull(it.m, it.id, by))

ResumeInterleave(m, id) ==
  LET o == m.h[id] IN
  IF o.st = "done" THEN Done(m)
  ELSE IF o.st = "susp" /\ o.j < Len(o.buf)
  THEN Yield(SetObj(m, id, [o EXCEPT !.j = @ + 1]), o.buf[o.j + 1])
  ELSE LET fin_ == [o EXCEPT !.st = "done"]
           Body(n) ==
             CASE n.s = "throw" -> Throw(SetObj(n.m, id, fin_))
               [] n.s = "hang" -> Hang(n.m)
               [] OTHER ->
                    IF SomeDone(n.items) THEN Done(SetObj(n.m, id, fin_))
                    ELSE Yield(SetObj(n.m, id, [o EXCEPT !.st = "susp", !.buf = Values(n.items), !.j = 1]),
                               n.items[1].value)
       IN Body(InterleaveRound(m, o.srcs, Ref(id), <<>>))

\* for (let it of v): v[Symbol.iterator]().  An iterator object answers
\* itself; a value that is not iterable raises.
ForOfIterator(m, v) ==
  IF IsRef(v) THEN [m |-> m, s |-> "ret", id |-> v.ref]
  ELSE IF IsIterable(v) THEN NewIter(m, Elements(v))
  ELSE [m |-> m, s |-> "throw", id |-> 0]

\* o instanceof Array || typeof o["next"] === "function": reading a property
\* of undefined or null raises.
IsArrayOrIterRaises(o) == IsUndef(o) \/ IsNull(o)
isArrayOrIter(o) == IsArr(o) \/ IsRef(o)

\* const f = function* (itr_) { for (let it of itr_) {
\*   if (isArrayOrIter(it)) yield* f(iter(it)); else yield it; } }
ResumeFlat(m, id) ==
  LET o == m.h[id]
      fin_ == [o EXCEPT !.st = "done", !.inner = 0]
  IN
  IF o.st = "done" THEN Done(m)
  ELSE IF o.st = "susp" /\ o.inner # 0
  THEN LET Delegate(r) ==
             CASE r.s = "yield" -> Yield(r.m, r.val)
               [] r.s = "done" -> ResumeFlat(SetObj(r.m, id, [o EXCEPT !.inner = 0]), id)
               [] r.s = "throw" -> Throw(SetObj(Close(r.m, o.up), id, fin_))
               [] OTHER -> r
       IN Delegate(Pull(m, o.inner, Ref(id)))
  ELSE LET it == IF o.st = "start" THEN ForOfIterator(m, o.src)
                 ELSE [m |-> m, s |-> "ret", id |-> o.up]
           on == [o EXCEPT !.st = "susp", !.up = it.id]
       IN IF it.s = "throw" THEN Throw(SetObj(it.m, id, fin_))
          ELSE LET Loop(r) ==
                     CASE r.s = "done" -> Done(SetObj(r.m, id, [fin_ EXCEPT !.up = it.id]))
                       [] r.s = "throw" -> Throw(SetObj(r.m, id, [fin_ EXCEPT !.up = it.id]))
                       [] r.s = "hang" -> r
                       [] OTHER ->
                            IF IsArrayOrIterRaises(r.val)
                            THEN Throw(SetObj(Close(r.m, it.id), id, [fin_ EXCEPT !.up = it.id]))
                            ELSE IF isArrayOrIter(r.val)
                            THEN LET sub == iter(r.m, r.val)
                                     m2 == Alloc(sub.m, FlatGen(Ref(sub.id)))
                                 IN ResumeFlat(SetObj(m2, id, [on EXCEPT !.inner = Len(m2.h)]), id)
                            ELSE Yield(SetObj(r.m, id, on), r.val)
               IN Loop(Pull(it.m, it.id, Ref(id)))

Resume(m, id) ==
  LET k == m.h[id].k IN
  CASE k = "array" -> ResumeArray(m, id)
    [] k = "mapiter" -> ResumeMapIter(m, id)
    [] k = "iterate" -> ResumeIterate(m, id)
    [] k = "take" -> ResumeTake(m, id)
    [] k \in {"map", "tap", "filter", "remove"} -> ResumeForOf(m, id)
    [] k = "dropWhile" -> ResumeDropWhile(m, id)
    [] k = "interpose" -> ResumeInterpose(m, id)
    [] k = "zip" -> ResumeZip(m, id)
    [] k = "interleave" -> ResumeInterleave(m, id)
    [] k = "flat" -> ResumeFlat(m, id)

\* id.next() called by `by`.
Pull(m, id, by) ==
  IF m.fuel = 0 THEN Hang(m)
  ELSE LET Logged(r) ==
             IF r.s = "hang" THEN r
             ELSE [r EXCEPT !.m.log =
                     Append(@, [ev |-> "next", src |-> id, by |-> by, s |-> r.s, val |-> r.val])]
       IN Logged(Resume([m EXCEPT !.fuel = @ - 1], id))

\* id.return() of a generator object.  One that has not started, or is
\* suspended at a yield outside any for-of loop (iterate, take, zip), just
\* completes.  One suspended at a yield inside a for-of loop over an iterator
\* (map, tap, filter, remove, dropWhile, interpose, flatten's f) also closes
\* that iterator; flatten's f first
\* hands the return to the generator it delegates to.
Return(m, id) ==
  LET o == m.h[id]
      m1 == SetObj(m, id, [o EXCEPT !.st = "done"])
  IN IF o.st # "susp" THEN (IF o.st = "done" THEN m ELSE m1)
     ELSE CASE o.k \in ForOfKinds -> Close(m1, o.up)
            [] o.k = "flat" -> Close(IF o.inner # 0 THEN Return(m1, o.inner) ELSE m1, o.up)
            [] OTHER -> m1

\* ------------------------------------------- functions that run to return
\* What a library function answers: s = "ret" with its value, "throw" or "hang".
Ret(m, v) == [m |-> m, s |-> "ret", val |-> v]
Fail(m, s) == [m |-> m, s |-> s, val |-> Undef]

RECURSIVE DropLoop(_, _, _, _), Drain(_, _, _, _)

\* drop's loop condition.
DropGuardOffByOne(i, numItemsToDrop) == i <= numItemsToDrop
DropGuard(i, numItemsToDrop) == i < numItemsToDrop

\* for (let i = 0; i < numItemsToDrop; i += 1) { if (itr_.next().done) break; }
DropLoop(m, id, i, numItemsToDrop) ==
  IF ~DropGuard(i, numItemsToDrop) THEN Ret(m, Ref(id))
  ELSE LET Body(r) ==
             CASE r.s = "yield" -> DropLoop(r.m, id, i + 1, numItemsToDrop)
               [] r.s = "done" -> Ret(r.m, Ref(id))
               [] OTHER -> Fail(r.m, r.s)
       IN Body(Pull(m, id, Fn("drop")))

\* drop(n)(o) is a plain function: it pulls when it is applied, and returns
\* the normalized source itself.
drop(m, numItemsToDrop, o) ==
  LET it == iter(m, o) IN
  IF it.s = "throw" THEN Fail(it.m, "throw")
  ELSE DropLoop(it.m, it.id, 0, numItemsToDrop)

\* Array.from(itr_): next() until done.
DrainSalvaging(m, id, by, acc) ==
  LET Body(r) ==
        CASE r.s = "yield" -> Drain(r.m, id, by, Append(acc, r.val))
          [] r.s = "done" -> Ret(r.m, Arr(acc))
          [] r.s = "throw" -> Ret(r.m, Arr(acc))
          [] OTHER -> Fail(r.m, r.s)
  IN Body(Pull(m, id, by))
Drain(m, id, by, acc) ==
  LET Body(r) ==
        CASE r.s = "yield" -> Drain(r.m, id, by, Append(acc, r.val))
          [] r.s = "done" -> Ret(r.m, Arr(acc))
          [] OTHER -> Fail(r.m, r.s)
  IN Body(Pull(m, id, by))

intoArray(m, itr) ==
  LET it == iter(m, itr) IN
  IF it.s = "throw" THEN Fail(it.m, "throw")
  ELSE Drain(it.m, it.id, Fn("intoArray"), <<>>)

\* for (let it of itr_) { return it; } return undefined;
\* Returning from inside the loop closes the iterator.
first(m, itr) ==
  LET it == iter(m, itr) IN
  IF it.s = "throw" THEN Fail(it.m, "throw")
  ELSE LET Body(r) ==
             CASE r.s = "yield" -> Ret(Close(r.m, it.id), r.val)
               [] r.s = "done" -> Ret(r.m, Undef)
               [] OTHER -> Fail(r.m, r.s)
       IN Body(Pull(it.m, it.id, Fn("first")))

\* Calling a generator function creates the generator object and returns it.
NewGen(m, o) == Ret(Alloc(m, o), Ref(Len(m.h) + 1))

take(m, numItemsToTake, o) == NewGen(m, TakeGen(numItemsToTake, o))
map(m, mapFn, itr) == NewGen(m, ForOfGen("map", mapFn, itr))
filter(m, predFn, itr) == NewGen(m, ForOfGen("filter", predFn, itr))
remove(m, predFn, itr) == NewGen(m, ForOfGen("remove", predFn, itr))
tap(m, sideEffectFn, itr) == NewGen(m, ForOfGen("tap", sideEffectFn, itr))
dropWhile(m, predFn, itr) == NewGen(m, DropWhileGen(predFn, itr))
interpose(m, separator, itr) == NewGen(m, InterposeGen(separator, itr))
zip(m, iterators) == NewGen(m, ZipGen(iterators))
interleave(m, iterators) == NewGen(m, InterleaveGen(iterators))
iterate(m, itrFn, initialValue) == NewGen(m, IterateGen(itrFn, initialValue))

\* flatten(itr) = f(itr): the argument is handed to f as it is.
flatten(m, itr) == NewGen(m, FlatGen(itr))

\* cycle(itr) = flatten(iterate(() => itr, itr))
cycleOneShot(m, itr) ==
  LET it == iter(m, itr)
      g == iterate(it.m, ConstFn(Ref(it.id)), Ref(it.id))
  IN flatten(g.m, g.val)
cycle(m, itr) ==
  LET g == iterate(m, ConstFn(itr), itr) IN flatten(g.m, g.val)

\* ------------------------------------------------------- Map and object
\* Map.prototype.has / get / set: keys compare by SameValueZero, which for
\* numbers, strings and booleans is equality of values; set on a key that is
\* present keeps its place, on a new key it adds the entry at the end.
MapIndex(entries, key) ==
  IF \E i \in DOMAIN entries : entries[i][1] = key
  THEN CHOOSE i \in DOMAIN entries : entries[i][1] = key
  ELSE 0
MapHas(entries, key) == MapIndex(entries, key) # 0
MapGet(entries, key) ==
  IF MapHas(entries, key) THEN entries[MapIndex(entries, key)][2] ELSE Undef
MapSet(entries, key, v) ==
  IF MapHas(entries, key) THEN [entries EXCEPT ![MapIndex(entries, key)] = <<key, v>>]
  ELSE Append(entries, <<key, v>>)

\* The decimal digits, and Number.prototype.toString of a natural number.
DigitChars == <<"0", "1", "2", "3", "4", "5", "6", "7", "8", "9">>
IsDigit(c) == \E d \in DOMAIN DigitChars : DigitChars[d] = c
DigitValue(c) == (CHOOSE d \in DOMAIN DigitChars : DigitChars[d] = c) - 1

RECURSIVE NumToStr(_), StrToNum(_)
NumToStr(n) ==
  IF n < Len(DigitChars) THEN <<DigitChars[n + 1]>>
  ELSE NumToStr(n \div Len(DigitChars)) \o <<DigitChars[(n % Len(DigitChars)) + 1]>>
StrToNum(cs) ==
  IF cs = <<>> THEN 0
  ELSE StrToNum(SubSeq(cs, 1, Len(cs) - 1)) * Len(DigitChars) + DigitValue(cs[Len(cs)])

\* obj[k]: the key of a property is a string; a number key is its decimal form.
PropertyKey(k) == IF IsNum(k) THEN Str(NumToStr(k.num)) ELSE k

\* A key that is an array index: own properties list these first, ascending.
IsIndexKey(key) ==
  /\ key.str # <<>>
  /\ \A i \in DOMAIN key.str : IsDigit(key.str[i])
  /\ Len(key.str) > 1 => key.str[1] # "0"

\* "__proto__" names the accessor every plain object inherits.
ProtoKey == Str(<<"_", "_", "p", "r", "o", "t", "o", "_", "_">>)

InsertAt(entries, i, e) ==
  SubSeq(entries, 1, i - 1) \o <<e>> \o SubSeq(entries, i, Len(entries))

\* Where a new index key goes: before the first entry whose key is no index
\* key or a larger one.
IndexKeyPlace(entries, key) ==
  LET later == {i \in DOMAIN entries :
                  ~IsIndexKey(entries[i][1])
                    \/ StrToNum(entries[i][1].str) > StrToNum(key.str)}
  IN IF later = {} THEN Len(entries) + 1
     ELSE CHOOSE i \in later : \A j \in later : i <= j

\* obj[k] = v on a plain object ({}): assigning to __proto__ runs the
\* inherited setter, which makes no own property; any other key is set in
\* place when present and added otherwise.
ObjSet(entries, k, v) ==
  LET key == PropertyKey(k) IN
  IF key = ProtoKey THEN entries
  ELSE IF MapHas(entries, key) THEN MapSet(entries, key, v)
  ELSE IF IsIndexKey(key) THEN InsertAt(entries, IndexKeyPlace(entries, key), <<key, v>>)
  ELSE Append(entries, <<key, v>>)

\* ---------------------------------------------------------------- reduce
\* The reducers the library itself hands to reduce.
\* every: (it, acc) => acc && predFn(it)
EveryStep(predFn) == [lib |-> "every", fn |-> predFn]
\* groupBy: (v, acc) => { const k = groupKeyFn(v); ...acc.set(k, ...); return acc; }
GroupStep(groupKeyFn) == [lib |-> "groupBy", fn |-> groupKeyFn]
\* intoObj: ([k, v], obj) => { obj[k] = v; return obj; }
AssignStep == [lib |-> "intoObj"]

\* acc.has(k) ? acc.set(k, [...acc.get(k), v]) : acc.set(k, [v])
PutFirstInBucket(entries, k, v) ==
  IF MapHas(entries, k) THEN MapSet(entries, k, Arr(<<v>> \o MapGet(entries, k).arr))
  ELSE MapSet(entries, k, Arr(<<v>>))
PutInBucket(entries, k, v) ==
  IF MapHas(entries, k) THEN MapSet(entries, k, Arr(Append(MapGet(entries, k).arr, v)))
  ELSE MapSet(entries, k, Arr(<<v>>))

\* [k, v] of an item: the first two elements of an array, undefined where
\* it has none.
PairKey(it) == IF Len(it.arr) >= 1 THEN it.arr[1] ELSE Undef
PairValue(it) == IF Len(it.arr) >= 2 THEN it.arr[2] ELSE Undef

\* reducerFn(it, acc)
Reducer(m, reducerFn, it, acc) ==
  IF "lib" \notin DOMAIN reducerFn THEN Call(m, reducerFn, Arr(<<it, acc>>), Fn("reduce"))
  ELSE CASE reducerFn.lib = "every" ->
              IF Truthy(acc) THEN Call(m, reducerFn.fn, it, Fn("every"))
              ELSE [m |-> m, s |-> "ret", val |-> acc]
         [] reducerFn.lib = "groupBy" ->
              LET Put(c) ==
                    IF c.s = "throw" THEN c
                    ELSE [m |-> [c.m EXCEPT !.h[acc.mapobj].entries = PutInBucket(@, c.val, it)],
                          s |-> "ret", val |-> acc]
              IN Put(Call(m, reducerFn.fn, it, Fn("groupBy")))
         [] reducerFn.lib = "intoObj" ->
              IF ~IsArr(it) THEN [m |-> m, s |-> "throw", val |-> Undef]
              ELSE [m |-> m, s |-> "ret",
                    val |-> Obj(ObjSet(acc.obj, PairKey(it), PairValue(it)))]

RECURSIVE ReduceLoop(_, _, _, _), SomeLoop(_, _, _), FrequenciesLoop(_, _, _), MapFrom(_, _, _)

\* for (let it of itr_) { acc = reducerFn(it, acc); } return acc;
\* A reducer that raises leaves the loop, which closes the iterator.
ReduceLoopUntilFalsy(m, id, reducerFn, acc) ==
  LET Step(c) ==
        IF c.s = "throw" THEN Fail(Close(c.m, id), "throw")
        ELSE IF ~Truthy(c.val) THEN Ret(Close(c.m, id), c.val)
        ELSE ReduceLoop(c.m, id, reducerFn, c.val)
      Body(r) ==
        CASE r.s = "yield" -> Step(Reducer(r.m, reducerFn, r.val, acc))
          [] r.s = "done" -> Ret(r.m, acc)
          [] OTHER -> Fail(r.m, r.s)
  IN Body(Pull(m, id, Fn("reduce")))
ReduceLoop(m, id, reducerFn, acc) ==
  LET Step(c) ==
        IF c.s = "throw" THEN Fail(Close(c.m, id), "throw")
        ELSE ReduceLoop(c.m, id, reducerFn, c.val)
      Body(r) ==
        CASE r.s = "yield" -> Step(Reducer(r.m, reducerFn, r.val, acc))
          [] r.s = "done" -> Ret(r.m, acc)
          [] OTHER -> Fail(r.m, r.s)
  IN Body(Pull(m, id, Fn("reduce")))

reduce(m, reducerFn, initialValue, itr) ==
  LET it == iter(m, itr) IN
  IF it.s = "throw" THEN Fail(it.m, "throw")
  ELSE ReduceLoop(it.m, it.id, reducerFn, initialValue)

\* reduce((it, acc) => acc && predFn(it), true)(itr_)
every(m, predFn, itr) ==
  LET it == iter(m, itr) IN
  IF it.s = "throw" THEN Fail(it.m, "throw")
  ELSE reduce(it.m, EveryStep(predFn), Bool(TRUE), Ref(it.id))

\* for (let it of itr_) { if (predFn(it)) return true; } return false;
SomeNeverMatches(c) == FALSE
SomeMatches(c) == Truthy(c.val)

SomeLoop(m, id, predFn) ==
  LET Step(c) ==
        IF c.s = "throw" THEN Fail(Close(c.m, id), "throw")
        ELSE IF SomeMatches(c) THEN Ret(Close(c.m, id), Bool(TRUE))
        ELSE SomeLoop(c.m, id, predFn)
      Body(r) ==
        CASE r.s = "yield" -> Step(Call(r.m, predFn, r.val, Fn("some")))
          [] r.s = "done" -> Ret(r.m, Bool(FALSE))
          [] OTHER -> Fail(r.m, r.s)
  IN Body(Pull(m, id, Fn("some")))

some(m, predFn, itr) ==
  LET it == iter(m, itr) IN
  IF it.s = "throw" THEN Fail(it.m, "throw")
  ELSE SomeLoop(it.m, it.id, predFn)

\* new Map(): a new object of the heap.
OldestMap(m) ==
  LET maps == {id \in DOMAIN m.h : m.h[id].k = "mapobj"} IN
  IF maps = {} THEN [m |-> Alloc(m, NewMapObj), id |-> Len(m.h) + 1]
  ELSE [m |-> m, id |-> CHOOSE id \in maps : \A other \in maps : id <= other]
NewMap(m) == [m |-> Alloc(m, NewMapObj), id |-> Len(m.h) + 1]

\* map.entries()
EntriesOf(m, mapId) == Ret(Alloc(m, MapIter(mapId)), Ref(Len(m.h) + 1))

\* reduce(..., new Map())(itr_).entries()
groupBy(m, groupKeyFn, itr) ==
  LET it == iter(m, itr) IN
  IF it.s = "throw" THEN Fail(it.m, "throw")
  ELSE LET Entries_(r) == IF r.s # "ret" THEN r ELSE EntriesOf(r.m, r.val.mapobj)
           Reduced(acc) ==
             Entries_(reduce(acc.m, GroupStep(groupKeyFn), MapObj(acc.id), Ref(it.id)))
       IN Reduced(NewMap(it.m))

\* mutateMapEntry(result, it, inc): m.set(k, updateFn(m.get(k)))
mutateMapEntry(entries, k) == MapSet(entries, k, Result(<<>>, IncFn, MapGet(entries, k)))

\* for (let it of itr_) { mutateMapEntry(result, it, inc); }
FrequenciesLoop(m, id, result) ==
  LET Body(r) ==
        CASE r.s = "yield" ->
               FrequenciesLoop([r.m EXCEPT !.h[result].entries = mutateMapEntry(@, r.val)],
                               id, result)
          [] r.s = "done" -> EntriesOf(r.m, result)
          [] OTHER -> Fail(r.m, r.s)
  IN Body(Pull(m, id, Fn("frequencies")))

frequencies(m, itr) ==
  LET it == iter(m, itr) IN
  IF it.s = "throw" THEN Fail(it.m, "throw")
  ELSE LET Counted(result) == FrequenciesLoop(result.m, it.id, result.id)
       IN Counted(NewMap(it.m))

\* new Map(itr_): every item is read as an entry, item[0] the key and
\* item[1] the value; an item that is no object raises, which closes the
\* iterator.
MapFrom(m, id, result) ==
  LET Body(r) ==
        CASE r.s = "yield" ->
               IF ~IsArr(r.val) THEN Fail(Close(r.m, id), "throw")
               ELSE MapFrom([r.m EXCEPT !.h[result].entries =
                                MapSet(@, PairKey(r.val), PairValue(r.val))],
                            id, result)
          [] r.s = "done" -> Ret(r.m, MapObj(result))
          [] OTHER -> Fail(r.m, r.s)
  IN Body(Pull(m, id, Fn("Map")))

intoMap(m, itr) ==
  LET it == iter(m, itr) IN
  IF it.s = "throw" THEN Fail(it.m, "throw")
  ELSE LET Filled(result) == MapFrom(result.m, it.id, result.id)
       IN Filled(NewMap(it.m))

\* iterate(fn, fn()): fn is called once, with no argument, when the iterator
\* is made.
repeatedly(m, fn) ==
  LET First(c) == IF c.s = "throw" THEN Fail(c.m, "throw") ELSE iterate(c.m, fn, c.val)
  IN First(Call(m, fn, Undef, Fn("repeatedly")))

\* ------------------------------------------------------------------ pipe
\* An operator handed to pipe: a unary function made by map(f), filter(p),
\* take(n), drop(n), ..., or a unary function of the library itself
\* (intoArray, first, frequencies, intoMap).
MapOp(fn) == [op |-> "map", fn |-> fn]
FilterOp(fn) == [op |-> "filter", fn |-> fn]
TakeOp(n) == [op |-> "take", n |-> n]
DropOp(n) == [op |-> "drop", n |-> n]
IntoArrayOp == [op |-> "intoArray"]
RemoveOp(fn) == [op |-> "remove", fn |-> fn]
TapOp(fn) == [op |-> "tap", fn |-> fn]
DropWhileOp(fn) == [op |-> "dropWhile", fn |-> fn]
InterposeOp(separator) == [op |-> "interpose", sep |-> separator]
ReduceOp(fn, initialValue) == [op |-> "reduce", fn |-> fn, init |-> initialValue]
EveryOp(fn) == [op |-> "every", fn |-> fn]
SomeOp(fn) == [op |-> "some", fn |-> fn]
GroupByOp(fn) == [op |-> "groupBy", fn |-> fn]
FirstOp == [op |-> "first"]
FrequenciesOp == [op |-> "frequencies"]
IntoMapOp == [op |-> "intoMap"]

\* first(itr): calling what is not a function raises a TypeError.
Apply(m, operator, itr) ==
  IF IsUndef(operator) THEN Fail(m, "throw")
  ELSE CASE operator.op = "map" -> map(m, operator.fn, itr)
         [] operator.op = "filter" -> filter(m, operator.fn, itr)
         [] operator.op = "take" -> take(m, operator.n, itr)
         [] operator.op = "drop" -> drop(m, operator.n, itr)
         [] operator.op = "intoArray" -> intoArray(m, itr)
         [] operator.op = "remove" -> remove(m, operator.fn, itr)
         [] operator.op = "tap" -> tap(m, operator.fn, itr)
         [] operator.op = "dropWhile" -> dropWhile(m, operator.fn, itr)
         [] operator.op = "interpose" -> interpose(m, operator.sep, itr)
         [] operator.op = "reduce" -> reduce(m, operator.fn, operator.init, itr)
         [] operator.op = "every" -> every(m, operator.fn, itr)
         [] operator.op = "some" -> some(m, operator.fn, itr)
         [] operator.op = "groupBy" -> groupBy(m, operator.fn, itr)
         [] operator.op = "first" -> first(m, itr)
         [] operator.op = "frequencies" -> frequencies(m, itr)
         [] operator.op = "intoMap" -> intoMap(m, itr)

Reverse(s) == [i \in 1..Len(s) |-> s[Len(s) + 1 - i]]

\* f(operators.reverse())
PipeOrderAsGiven(operators) == operators
PipeOrder(operators) == Reverse(operators)

RECURSIVE PipeF(_, _, _)
\* let [first, ...rest] = txs: of an empty list, first is undefined and rest
\* is empty.  first(f(rest)) evaluates f(rest) and then calls first.
PipeF(m, itr, txs) ==
  LET first_ == IF Len(txs) > 0 THEN Head(txs) ELSE Undef
      rest == IF Len(txs) > 0 THEN Tail(txs) ELSE <<>>
  IN IF Len(rest) = 0 THEN Apply(m, first_, Ref(itr))
     ELSE LET Outer(inner) ==
                IF inner.s # "ret" THEN inner ELSE Apply(inner.m, first_, inner.val)
          IN Outer(PipeF(m, itr, rest))

pipe(m, iterable, operators) ==
  LET it == iter(m, iterable) IN
  IF it.s = "throw" THEN Fail(it.m, "throw")
  ELSE PipeF(it.m, it.id, PipeOrder(operators))

\* pipe(itr_, reduce(([k, v], obj) => { obj[k] = v; return obj; }, {}))
intoObj(m, itr) ==
  LET it == iter(m, itr) IN
  IF it.s = "throw" THEN Fail(it.m, "throw")
  ELSE pipe(it.m, Ref(it.id), <<ReduceOp(AssignStep, Obj(<<>>))>>)

\* ------------------------------------------------------------ history
\* The next() calls that `by` has made on object id, in order.
NextsBy(l, id, by) ==
  SelectSeq(l, LAMBDA e : e.ev = "next" /\ e.src = id /\ e.by = by)
NextsOn(l, id) == SelectSeq(l, LAMBDA e : e.ev = "next" /\ e.src = id)
Yielded(es) == LET ys == SelectSeq(es, LAMBDA e : e.s = "yield")
               IN [i \in DOMAIN ys |-> ys[i].val]
Prefix(s, n) == SubSeq(s, 1, Min(n, Len(s)))

\* ------------------------------------------------------------- client
\* Client code calls next() on the iterator a library call returned.
ClientNext ==
  /\ pc = "ready"
  /\ IsRef(root)
  /\ Len(NextsBy(log, root.ref, Client)) < MaxPulls
  /\ LET Answer(r) ==
           /\ heap' = r.m.h
           /\ log' = r.m.log
           /\ out' = IF r.s = "yield" THEN Append(out, r.val) ELSE out
           /\ fin' = (fin \/ r.s = "done")
           /\ pc' = CASE r.s = "throw" -> "raised" [] r.s = "hang" -> "hung" [] OTHER -> pc
     IN Answer(Pull(Machine(heap, log), root.ref, Client))
  /\ UNCHANGED <<inp, root>>

Nums == {Num(n) : n \in 0..MaxVal}
NumArrays == SeqUpTo(Nums, MaxLen)

\* ------------------------------------------------------------- take
\* A source of take: an array (normalized when the generator first runs),
\* an array iterator, or iterate(i => i + 1, 0), which never ends.
InitTake ==
  /\ \E n \in 0..MaxN, kind \in {"array", "iterator", "infinite"}, items \in NumArrays :
       /\ kind = "infinite" => items = <<>>
       /\ inp = [n |-> n, kind |-> kind, items |-> items]
       /\ heap = CASE kind = "array" -> <<>>
                   [] kind = "iterator" -> <<ArrayIter(items)>>
                   [] kind = "infinite" -> <<IterateGen(IncFn, Num(0))>>
  /\ log = <<>> /\ pc = "init" /\ root = Undef /\ out = <<>> /\ fin = FALSE

\* take(n)(o): calling a generator function only creates the generator object.
ApplyTake ==
  /\ pc = "init"
  /\ heap' = Append(heap, TakeGen(inp.n, IF inp.kind = "array" THEN Arr(inp.items) ELSE Ref(1)))
  /\ root' = Ref(Len(heap) + 1)
  /\ pc' = "ready"
  /\ UNCHANGED <<log, inp, out, fin>>

NextTake == ApplyTake \/ ClientNext
SpecTake == InitTake /\ [][NextTake]_vars

\* What take(n) is to yield: the first min(n, length) items of its source.
ExpectedTake ==
  IF inp.kind = "infinite" THEN [i \in 1..inp.n |-> Num(i - 1)]
  ELSE Prefix(inp.items, inp.n)

ClientNexts == IF IsRef(root) THEN Len(NextsBy(log, root.ref, Client)) ELSE 0

\* The next() calls the generator object id has made, on any object.
NextsMadeBy(l, id) == SelectSeq(l, LAMBDA e : e.ev = "next" /\ e.by = Ref(id))

\* C3: after k pulls take(n) has yielded the first min(k, n, length) items of
\* its source in order, and reports done from then on; it never raises; it
\* has called next() on its source at most n times, the yielded items being
\* all it pulled (so none after the n-th item, and none at all when n = 0).
C3_TakeYieldsPrefixAndStops ==
  pc # "init" =>
    /\ pc = "ready"
    /\ out = Prefix(ExpectedTake, ClientNexts)
    /\ fin <=> ClientNexts > Len(ExpectedTake)
    /\ Len(NextsMadeBy(log, root.ref)) <= inp.n
    /\ Yielded(NextsMadeBy(log, root.ref)) = out

\* take(2) of the endless source pulled past its end: two items, then done.
C3_Witness ==
  /\ pc = "ready" /\ inp.kind = "infinite" /\ inp.n = 2
  /\ Len(out) = 2 /\ fin /\ ClientNexts >= 4

\* ------------------------------------------------------------- drop
\* drop(n)(o), applied by the client, which then pulls from what it returned.
ApplyDrop ==
  /\ pc = "init"
  /\ LET Answer(r) ==
           /\ heap' = r.m.h
           /\ log' = r.m.log
           /\ root' = r.val
           /\ pc' = CASE r.s = "ret" -> "ready" [] r.s = "throw" -> "raised" [] OTHER -> "hung"
     IN Answer(drop(Machine(heap, log), inp.n,
                    IF inp.kind = "array" THEN Arr(inp.items) ELSE Ref(1)))
  /\ UNCHANGED <<inp, out, fin>>

NextDrop == ApplyDrop \/ ClientNext
SpecDrop == InitTake /\ [][NextDrop]_vars

\* The first k items of the source of the take and drop scenarios.
SourcePrefix(k) ==
  IF inp.kind = "infinite" THEN [i \in 1..k |-> Num(i - 1)] ELSE Prefix(inp.items, k)

\* What is left of the source after its first n items, as far as k pulls reach.
ExpectedAfterDrop(k) ==
  IF inp.kind = "infinite" THEN [i \in 1..k |-> Num(inp.n + i - 1)]
  ELSE Prefix(SubSeq(inp.items, inp.n + 1, Len(inp.items)), k)

\* C10: once drop(n) has been applied, and before any pull on its result,
\* it has pulled the first min(n, length) items of the source and nothing
\* after them (at most n calls of next()); the result is the source itself,
\* every later pull being one client pull, and it yields the remaining items
\* in order and reports done after them (at once when n >= length).
C10_DropPullsPrefixWhenApplied ==
  pc # "init" =>
    /\ pc = "ready"
    /\ Yielded(NextsBy(log, root.ref, Fn("drop"))) = SourcePrefix(inp.n)
    /\ Len(NextsBy(log, root.ref, Fn("drop"))) <= inp.n
    /\ Len(NextsOn(log, root.ref)) = Len(NextsBy(log, root.ref, Fn("drop"))) + ClientNexts
    /\ out = ExpectedAfterDrop(ClientNexts)
    /\ inp.kind # "infinite" =>
         (fin <=> ClientNexts > Len(inp.items) - Min(inp.n, Len(inp.items)))
    /\ inp.kind = "infinite" => ~fin

\* drop(2) just applied to a source of three items: two pulled, none yielded yet.
C10_Witness ==
  /\ pc = "ready" /\ inp.n = 2 /\ Len(inp.items) = 3 /\ ClientNexts = 0
  /\ Len(NextsBy(log, root.ref, Fn("drop"))) = 2

\* ------------------------------------------------- zip and interleave
\* k sources; source j is an array or an array iterator whose r-th item is
\* the number 10 * j + r, so that every item tells its source and its place.
Item(j, r) == Num(10 * j + r)
SrcItems(j) == [r \in 1..inp.lens[j] |-> Item(j, r)]
IterSources(kinds) == SelectSeq([j \in DOMAIN kinds |-> j], LAMBDA j : kinds[j] = "iterator")
RefIndex(j) == Cardinality({i \in 1..j : inp.kinds[i] = "iterator"})
SrcValue(j) == IF inp.kinds[j] = "array" THEN Arr(SrcItems(j)) ELSE Ref(RefIndex(j))
Sources == [j \in DOMAIN inp.lens |-> SrcValue(j)]

InitSources ==
  /\ \E k \in 1..MaxSrc :
       \E lens \in [1..k -> 0..MaxLen], kinds \in [1..k -> {"array", "iterator"}] :
         /\ inp = [lens |-> lens, kinds |-> kinds]
         /\ heap = [q \in DOMAIN IterSources(kinds) |-> ArrayIter(SrcItems(IterSources(kinds)[q]))]
  /\ log = <<>> /\ pc = "init" /\ root = Undef /\ out = <<>> /\ fin = FALSE

ApplyZip ==
  /\ pc = "init"
  /\ LET r == zip(Machine(heap, log), Sources) IN
       heap' = r.m.h /\ log' = r.m.log /\ root' = r.val
  /\ pc' = "ready"
  /\ UNCHANGED <<inp, out, fin>>

ApplyInterleave ==
  /\ pc = "init"
  /\ LET r == interleave(Machine(heap, log), Sources) IN
       heap' = r.m.h /\ log' = r.m.log /\ root' = r.val
  /\ pc' = "ready"
  /\ UNCHANGED <<inp, out, fin>>

NextZip == ApplyZip \/ ClientNext
SpecZip == InitSources /\ [][NextZip]_vars

NextInterleave == ApplyInterleave \/ ClientNext
SpecInterleave == InitSources /\ [][NextInterleave]_vars

NumSources == Len(inp.lens)
MinLen == CHOOSE n \in {inp.lens[j] : j \in DOMAIN inp.lens} :
            \A j \in DOMAIN inp.lens : n <= inp.lens[j]

ExpectedZip == [r \in 1..MinLen |-> Arr([j \in 1..NumSources |-> Item(j, r)])]

ExpectedInterleave ==
  [q \in 1..(NumSources * MinLen) |->
     Item(((q - 1) % NumSources) + 1, ((q - 1) \div NumSources) + 1)]

\* C4: interleave yields, round by round, the r-th item of source 1, ..., of
\* source k, that is k * min(Li) items, and then reports done, whether a
\* source is given as a pull iterator or as an array.
C4_InterleaveRoundRobinShortest ==
  pc # "init" =>
    /\ pc = "ready"
    /\ out = Prefix(ExpectedInterleave, ClientNexts)
    /\ fin <=> ClientNexts > Len(ExpectedInterleave)

\* C5: zip yields min(Li) tuples, the r-th holding the r-th item of every
\* source in argument order, and then reports done; every step pulls every
\* source once, also the step on which some source is done, whose values
\* are dropped: a source has been pulled min(steps, min(Li) + 1) times.
C5_ZipShortestWins ==
  pc # "init" =>
    /\ pc = "ready"
    /\ out = Prefix(ExpectedZip, ClientNexts)
    /\ fin <=> ClientNexts > MinLen
    /\ ClientNexts > 0 =>
         \A j \in 1..NumSources :
           LET pulls == NextsBy(log, heap[root.ref].ups[j], Ref(root.ref)) IN
             /\ Len(pulls) = Min(ClientNexts, MinLen + 1)
             /\ Yielded(pulls) = Prefix(SrcItems(j), Len(pulls))

\* zip of a source of one item and a longer one, pulled to its end: the
\* longer source gave a second item, and no second tuple was yielded.
C5_Witness ==
  /\ pc = "ready" /\ fin /\ NumSources = 2
  /\ inp.lens[1] = 1 /\ inp.lens[2] > 1
  /\ Len(out) = 1
  /\ Len(Yielded(NextsBy(log, heap[root.ref].ups[2], Ref(root.ref)))) = 2

\* ------------------------------------------------------------- iter
Chars == {"a", "b"}
Keys == {Str(<<c>>) : c \in Chars}
Distinct(q) == \A i, j \in DOMAIN q : i # j => q[i] # q[j]
DistinctKeys(q) == \A i, j \in DOMAIN q : i # j => q[i][1] # q[j][1]
EntryLists == {q \in SeqUpTo(Keys \X Nums, Cardinality(Chars)) : DistinctKeys(q)}

\* The input shapes of iter: absent values, scalars, the iterable
\* containers, plain objects, and an array iterator already made.
IterInputs ==
  {Undef, Null, Num(0), Bool(TRUE), Ref(1)}
    \cup {Arr(q) : q \in NumArrays}
    \cup {Str(q) : q \in SeqUpTo(Chars, Cardinality(Chars))}
    \cup {SetV(q) : q \in {q \in NumArrays : Distinct(q)}}
    \cup {MapV(q) : q \in EntryLists}
    \cup {Obj(q) : q \in EntryLists}

InitIter ==
  /\ \E x \in IterInputs, items \in NumArrays :
       /\ ~IsRef(x) => items = <<>>
       /\ inp = [x |-> x, items |-> items]
       /\ heap = IF IsRef(x) THEN <<ArrayIter(items)>> ELSE <<>>
  /\ log = <<>> /\ pc = "init" /\ root = Undef /\ out = <<>> /\ fin = FALSE

ApplyIter ==
  /\ pc = "init"
  /\ LET r == iter(Machine(heap, log), inp.x) IN
       /\ heap' = r.m.h
       /\ log' = r.m.log
       /\ root' = IF r.s = "ret" THEN Ref(r.id) ELSE Undef
       /\ pc' = IF r.s = "ret" THEN "ready" ELSE "raised"
  /\ UNCHANGED <<inp, out, fin>>

NextIter == ApplyIter \/ ClientNext
SpecIter == InitIter /\ [][NextIter]_vars

\* C6: iter never raises and returns a pull iterator for every input shape;
\* for an absent input (undefined or null) the first next() reports done;
\* for a plain object the iterator yields its [key, value] entries in
\* insertion order.
C6_IterIsTotal ==
  pc # "init" =>
    /\ pc = "ready"
    /\ IsRef(root)
    /\ (IsUndef(inp.x) \/ IsNull(inp.x)) /\ ClientNexts >= 1 => fin /\ out = <<>>
    /\ IsObj(inp.x) =>
         out = Prefix([i \in DOMAIN inp.x.obj |-> Arr(inp.x.obj[i])], ClientNexts)

\* ------------------------------------------------------------- pipe
\* The source is the array [0, ..., len - 1] or an iterator over it; the
\* operators are any list of at most MaxOps of these.
PipeOps == {MapOp(IncFn), FilterOp(EvenFn), TakeOp(1), TakeOp(2), DropOp(1), IntoArrayOp}
Upto(len) == [i \in 1..len |-> Num(i - 1)]

InitPipe ==
  /\ \E kind \in {"array", "iterator"}, len \in 0..MaxLen, ops \in SeqUpTo(PipeOps, MaxOps) :
       /\ inp = [kind |-> kind, items |-> Upto(len), ops |-> ops]
       /\ heap = IF kind = "iterator" THEN <<ArrayIter(Upto(len))>> ELSE <<>>
  /\ log = <<>> /\ pc = "init" /\ root = Undef /\ out = <<>> /\ fin = FALSE

PipeSource == IF inp.kind = "array" THEN Arr(inp.items) ELSE Ref(1)

ApplyPipe ==
  /\ pc = "init"
  /\ LET Answer(r) ==
           /\ heap' = r.m.h
           /\ log' = r.m.log
           /\ root' = r.val
           /\ pc' = CASE r.s = "ret" -> "ready" [] r.s = "throw" -> "raised" [] OTHER -> "hung"
     IN Answer(pipe(Machine(heap, log), PipeSource, inp.ops))
  /\ UNCHANGED <<inp, out, fin>>

NextPipe == ApplyPipe \/ ClientNext
SpecPipe == InitPipe /\ [][NextPipe]_vars

RECURSIVE ComposeLeft(_, _, _, _), DenoteAll(_, _)

\* opN(...op2(op1(v))): the operators applied one after the other, first to last.
ComposeLeft(m, v, ops, i) ==
  IF i > Len(ops) THEN Ret(m, v)
  ELSE LET r == Apply(m, ops[i], v) IN
       IF r.s # "ret" THEN r ELSE ComposeLeft(r.m, r.val, ops, i + 1)

\* The composition applied to the normalized source, from the initial state.
DirectComposition ==
  LET h0 == IF inp.kind = "iterator" THEN <<ArrayIter(inp.items)>> ELSE <<>>
      it == iter(Machine(h0, <<>>), PipeSource)
  IN ComposeLeft(it.m, Ref(it.id), inp.ops, 1)

\* Each operator as a function on finite sequences.
Denote(op, xs) ==
  CASE op.op = "map" -> [i \in DOMAIN xs |-> Num(xs[i].num + 1)]
    [] op.op = "filter" -> SelectSeq(xs, LAMBDA x : x.num % 2 = 0)
    [] op.op = "take" -> Prefix(xs, op.n)
    [] op.op = "drop" -> SubSeq(xs, op.n + 1, Len(xs))
    [] op.op = "intoArray" -> xs
DenoteAll(ops, xs) ==
  IF ops = <<>> THEN xs ELSE DenoteAll(Tail(ops), Denote(Head(ops), xs))

\* C1: for N >= 1 operators pipe returns what applying op1 to the normalized
\* source, then op2 to that, ..., then opN gives: the same value, reached
\* through the same heap and the same calls, with nothing pulled beyond what
\* the operators themselves pull; materialized, the result is the operators'
\* functions applied in the listed order to the source sequence.
C1_PipeAppliesLeftToRight ==
  (pc # "init" /\ Len(inp.ops) >= 1) =>
    /\ pc = "ready"
    /\ root = DirectComposition.val
    /\ ClientNexts = 0 => heap = DirectComposition.m.h /\ log = DirectComposition.m.log
    /\ IsArr(root) => root = Arr(DenoteAll(inp.ops, inp.items))
    /\ IsRef(root) =>
         /\ out = Prefix(DenoteAll(inp.ops, inp.items), ClientNexts)
         /\ fin <=> ClientNexts > Len(DenoteAll(inp.ops, inp.items))

\* pipe([0, 1, 2], drop(1), map(inc)) drained: [2, 3], not what the reverse
\* order gives.
C1_Witness ==
  /\ pc = "ready" /\ fin
  /\ inp.ops = <<DropOp(1), MapOp(IncFn)>>
  /\ inp.items = Upto(3)
  /\ out = <<Num(2), Num(3)>>

\* C2: with no operators pipe returns the normalized source (the iterator
\* handed in, or a fresh iterator over the array handed in) and does not raise.
C2_PipeNoOperatorsReturnsSource ==
  (pc # "init" /\ inp.ops = <<>>) =>
    /\ pc = "ready"
    /\ IsRef(root)
    /\ inp.kind = "iterator" => root = Ref(1)
    /\ out = Prefix(inp.items, ClientNexts)

\* ------------------------------------------------------------- flatten
\* Nested inputs: leaves (a number, a string, a plain object, undefined),
\* arrays of leaves, the array iterator [7, [8]].values() (object 1 of the
\* heap), arrays of those, and the three-deep example of the tests.
FlatLeaves == {Num(1), Str(<<"a">>), Obj(<<>>), Undef}
NestedIterItems == <<Num(7), Arr(<<Num(8)>>)>>
FlatInner == FlatLeaves \cup {Arr(q) : q \in SeqUpTo({Num(2), Undef}, MaxWidth)} \cup {Ref(1)}
DeepExample == Arr(<<Num(1), Arr(<<Num(2), Arr(<<Num(3), Num(4)>>)>>), Num(5)>>)

RECURSIVE CountRef(_), LeavesOf(_), Concat(_)
CountRef(v) ==
  IF IsRef(v) THEN 1
  ELSE IF IsArr(v) /\ v.arr # <<>> THEN CountRef(Head(v.arr)) + CountRef(Arr(Tail(v.arr)))
  ELSE 0

FlatInputs ==
  {x \in {Arr(q) : q \in SeqUpTo(FlatInner, MaxWidth)} : CountRef(x) <= 1}
    \cup {DeepExample, Ref(1)}

InitFlatten ==
  /\ \E x \in FlatInputs :
       /\ inp = [x |-> x]
       /\ heap = IF CountRef(x) = 1 THEN <<ArrayIter(NestedIterItems)>> ELSE <<>>
  /\ log = <<>> /\ pc = "init" /\ root = Undef /\ out = <<>> /\ fin = FALSE

ApplyFlatten ==
  /\ pc = "init"
  /\ LET r == flatten(Machine(heap, log), inp.x) IN
       heap' = r.m.h /\ log' = r.m.log /\ root' = r.val
  /\ pc' = "ready"
  /\ UNCHANGED <<inp, out, fin>>

NextFlatten == ApplyFlatten \/ ClientNext
SpecFlatten == InitFlatten /\ [][NextFlatten]_vars

Concat(qs) == IF qs = <<>> THEN <<>> ELSE Head(qs) \o Concat(Tail(qs))

\* The leaves of a nested structure, depth first, left to right.
LeavesOf(v) ==
  IF IsArr(v) THEN Concat([i \in DOMAIN v.arr |-> LeavesOf(v.arr[i])])
  ELSE IF IsRef(v) THEN LeavesOf(Arr(NestedIterItems))
  ELSE <<v>>

\* C8: flatten yields exactly the leaves of the structure, depth first and
\* left to right, then reports done, and raises for no item: a number, a
\* string, a plain object and an absent value are each yielded as they are.
C8_FlattenYieldsLeaves ==
  pc # "init" =>
    /\ pc = "ready"
    /\ out = Prefix(LeavesOf(inp.x), ClientNexts)
    /\ fin <=> ClientNexts > Len(LeavesOf(inp.x))

\* ------------------------------------------------------------- cycle
InitCycle ==
  /\ \E S \in NumArrays \ {<<>>}, n \in 0..MaxN : inp = [S |-> S, n |-> n]
  /\ heap = <<>>
  /\ log = <<>> /\ pc = "init" /\ root = Undef /\ out = <<>> /\ fin = FALSE

\* take(k)(cycle(S))
ApplyCycle ==
  /\ pc = "init"
  /\ LET c == cycle(Machine(heap, log), Arr(inp.S))
         t == take(c.m, inp.n, c.val)
     IN heap' = t.m.h /\ log' = t.m.log /\ root' = t.val
  /\ pc' = "ready"
  /\ UNCHANGED <<inp, out, fin>>

NextCycle == ApplyCycle \/ ClientNext
SpecCycle == InitCycle /\ [][NextCycle]_vars

ExpectedCycle == [i \in 1..inp.n |-> inp.S[((i - 1) % Len(inp.S)) + 1]]

ArrayIters(h) == {id \in DOMAIN h : h[id].k = "array"}

\* C9: take(k)(cycle(S)) yields k items, the i-th (from 0) being
\* S[i mod |S|], and then reports done; every lap reads S through an iterator
\* of its own, made when the lap starts, over the items of S as they were
\* given.
C9_CycleRepeatsArray ==
  pc # "init" =>
    /\ pc = "ready"
    /\ out = Prefix(ExpectedCycle, ClientNexts)
    /\ fin <=> ClientNexts > inp.n
    /\ \A id \in ArrayIters(heap) : heap[id].items = inp.S
    /\ Cardinality(ArrayIters(heap)) = (Len(out) + Len(inp.S) - 1) \div Len(inp.S)

\* take(4) of the cycle of a two-item array, drained: two whole laps.
C9_Witness ==
  /\ pc = "ready" /\ fin /\ Len(inp.S) = 2 /\ inp.S[1] # inp.S[2]
  /\ inp.n = 4 /\ Len(out) = 4

\* ------------------------------------------------- one iterator, shared
\* One pull iterator X over [0, ..., len - 1]: an array iterator, or
\* range(len), the library's take(len)(iterate(i => i + 1, 0)).  Its
\* consumers: the generators map(inc)(X) and take(2)(X), pulled by the
\* client in any order, and the calls first(X), drop(1)(X) and intoArray(X).
InitShared ==
  /\ \E kind \in {"array", "range"}, len \in 0..MaxLen :
       /\ inp = [kind |-> kind, items |-> Upto(len)]
       /\ heap = IF kind = "array" THEN <<ArrayIter(Upto(len))>>
                 ELSE <<IterateGen(IncFn, Num(0)), TakeGen(len, Ref(1))>>
  /\ log = <<>> /\ pc = "init" /\ root = Undef /\ out = <<>> /\ fin = FALSE

SharedId == IF inp.kind = "array" THEN 1 ELSE 2
ConsumerGens == {SharedId + 1, SharedId + 2}

ApplyOperators ==
  /\ pc = "init"
  /\ LET a == map(Machine(heap, log), IncFn, Ref(SharedId))
         b == take(a.m, 2, Ref(SharedId))
     IN heap' = b.m.h /\ log' = b.m.log
  /\ root' = Ref(SharedId)
  /\ pc' = "ready"
  /\ UNCHANGED <<inp, out, fin>>

\* The client pulls one of the two generators, until it reports done.
PullConsumer ==
  /\ pc = "ready"
  /\ \E c \in ConsumerGens :
       /\ \A i \in DOMAIN log : ~(log[i].ev = "next" /\ log[i].src = c /\ log[i].s = "done")
       /\ LET Answer(r) == heap' = r.m.h /\ log' = r.m.log
          IN Answer(Pull(Machine(heap, log), c, Client))
  /\ UNCHANGED <<inp, pc, root, out, fin>>

Called(name) == \E i \in DOMAIN out : out[i].c = name

CallTerminal(name, r) ==
  /\ pc = "ready"
  /\ ~Called(name)
  /\ heap' = r.m.h
  /\ log' = r.m.log
  /\ out' = Append(out, [c |-> name, val |-> r.val])
  /\ UNCHANGED <<inp, pc, root, fin>>

CallFirst == CallTerminal("first", first(Machine(heap, log), root))
CallDrop == CallTerminal("drop", drop(Machine(heap, log), 1, root))
CallIntoArray == CallTerminal("intoArray", intoArray(Machine(heap, log), root))

NextShared == ApplyOperators \/ PullConsumer \/ CallFirst \/ CallDrop \/ CallIntoArray
SpecShared == InitShared /\ [][NextShared]_vars

\* The items X has delivered, to whichever consumer, in order.
Delivered == Yielded(NextsOn(log, SharedId))
Drained == \E i \in DOMAIN log :
             log[i].ev = "next" /\ log[i].src = SharedId /\ log[i].s = "done"

\* C7: every consumer reads X itself (iter(X) is X: the generators pull X,
\* drop returns X); each item of the source is delivered once, to one
\* consumer, in source order; and once consumers have pulled X to its done
\* signal, the items they have seen are all the items of the source.
C7_SinglePassLaw ==
  pc = "ready" =>
    /\ \A c \in ConsumerGens : heap[c].up \in {0, SharedId}
    /\ \A i \in DOMAIN out : out[i].c = "drop" => out[i].val = Ref(SharedId)
    /\ Delivered = Prefix(inp.items, Len(Delivered))
    /\ Drained => Len(Delivered) = Len(inp.items)

\* ------------------------------------------------- chains of operators
\* pipe(source, op1, ..., opN) with N >= 1 operators that hand back an
\* iterator; the source is [0, ..., len - 1] as an array or as an iterator.
ChainOps ==
  {MapOp(IncFn), TapOp(NoteFn), FilterOp(EvenFn), RemoveOp(EvenFn), TakeOp(2),
   DropOp(1), DropWhileOp(EvenFn), InterposeOp(Num(9))}

InitChain ==
  /\ \E kind \in {"array", "iterator"}, len \in 0..MaxLen,
        ops \in SeqUpTo(ChainOps, MaxOps) \ {<<>>} :
       /\ inp = [kind |-> kind, items |-> Upto(len), ops |-> ops]
       /\ heap = IF kind = "iterator" THEN <<ArrayIter(Upto(len))>> ELSE <<>>
  /\ log = <<>> /\ pc = "init" /\ root = Undef /\ out = <<>> /\ fin = FALSE

SpecChain == InitChain /\ [][NextPipe]_vars

\* C11: a chain built from map, filter, remove, take, drop, dropWhile, tap
\* and interpose has, until its result is pulled for the first time, pulled
\* nothing from the source (or from anything else) and called no callback.
C11_ChainBuildingIsLazy ==
  (pc # "init" /\ ClientNexts = 0) => (pc = "ready" /\ log = <<>>)

\* The stages whose body is one callback per item.
StageKinds == {"map", "tap", "filter", "remove"}
AllStages == \A i \in DOMAIN inp.ops : inp.ops[i].op \in StageKinds

\* In a chain the source is object 1 and stage i is generator object 1 + i.
StageGen(i) == 1 + i

\* What a stage's callback answers for v, whether the stage lets the item
\* pass, and what it hands on.
StageAnswer(op, v) == Result(<<>>, op.fn, v)
StagePasses(op, v) ==
  CASE op.op = "filter" -> Truthy(StageAnswer(op, v))
    [] op.op = "remove" -> ~Truthy(StageAnswer(op, v))
    [] OTHER -> TRUE
StageOutput(op, v) == IF op.op = "map" THEN StageAnswer(op, v) ELSE v

RECURSIVE StageCalls(_, _), StagesPass(_, _), StagesOutput(_, _)
\* The callbacks one source item causes, from stage i on, in stage order.
StageCalls(i, v) ==
  IF i > Len(inp.ops) THEN <<>>
  ELSE <<[t |-> "call", by |-> Ref(StageGen(i)), arg |-> v]>>
         \o (IF StagePasses(inp.ops[i], v)
             THEN StageCalls(i + 1, StageOutput(inp.ops[i], v)) ELSE <<>>)
StagesPass(i, v) ==
  i > Len(inp.ops)
    \/ (StagePasses(inp.ops[i], v) /\ StagesPass(i + 1, StageOutput(inp.ops[i], v)))
StagesOutput(i, v) ==
  IF i > Len(inp.ops) THEN v ELSE StagesOutput(i + 1, StageOutput(inp.ops[i], v))

\* The source items that come out of the chain, and what comes out.
Survivors == SelectSeq(inp.items, LAMBDA x : StagesPass(1, x))
ChainOutput == [i \in DOMAIN Survivors |-> StagesOutput(1, Survivors[i])]

\* How many source items the k-th output needs: the place of the k-th survivor.
Needed(k) ==
  IF k = 0 THEN 0
  ELSE CHOOSE n \in 1..Len(inp.items) :
         /\ Len(SelectSeq(Prefix(inp.items, n), LAMBDA x : StagesPass(1, x))) = k
         /\ StagesPass(1, inp.items[n])

\* The history reduced to the pulls on the source and the callbacks.
ChainTrace ==
  LET es == SelectSeq(log, LAMBDA e : e.ev = "call" \/ e.src = 1) IN
  [i \in DOMAIN es |->
     IF es[i].ev = "call" THEN [t |-> "call", by |-> es[i].by, arg |-> es[i].arg]
     ELSE [t |-> "pull", by |-> es[i].by, s |-> es[i].s, val |-> es[i].val]]

\* Item-major order for the first n source items, then d pulls answered done.
ItemTrace(x) ==
  <<[t |-> "pull", by |-> Ref(StageGen(1)), s |-> "yield", val |-> x]>> \o StageCalls(1, x)
ExpectedTrace(n, d) ==
  Concat([i \in 1..n |-> ItemTrace(inp.items[i])])
    \o [j \in 1..d |-> [t |-> "pull", by |-> Ref(StageGen(1)), s |-> "done", val |-> Undef]]

\* C20: in a chain of map, tap, filter and remove stages, after k pulls on
\* the result the source has been pulled exactly as far as the k-th output
\* needs (to its end, once, when there is no k-th output), and the history is
\* item-major: the pull of source item i, then the callbacks of the stages
\* for item i in stage order (up to the stage that rejects it), then the pull
\* of item i + 1.
C20_DemandDrivenItemMajor ==
  (pc # "init" /\ AllStages) =>
    /\ pc = "ready"
    /\ out = Prefix(ChainOutput, ClientNexts)
    /\ ChainTrace = IF ClientNexts <= Len(Survivors)
                    THEN ExpectedTrace(Needed(ClientNexts), 0)
                    ELSE ExpectedTrace(Len(inp.items), 1)

\* [0, 1, 2] through filter(even) and map(inc), pulled once: item 0 went
\* through both stages, and item 1 has not been pulled.
C20_Witness ==
  /\ pc = "ready" /\ inp.ops = <<FilterOp(EvenFn), MapOp(IncFn)>>
  /\ inp.items = Upto(3) /\ ClientNexts = 1 /\ out = <<Num(1)>>
  /\ Len(ChainTrace) = 3

\* ------------------------------------------------------------ repeatedly
\* repeatedly(f), pulled by the client directly or through take(n); f counts
\* its calls, or is inc, or answers a constant.
InitRepeatedly ==
  /\ \E fn \in {TickFn, IncFn} \cup {ConstFn(v) : v \in Nums},
        wrap \in {"none", "take"}, n \in 0..MaxN :
       /\ wrap = "none" => n = 0
       /\ inp = [fn |-> fn, wrap |-> wrap, n |-> n]
  /\ heap = <<>>
  /\ log = <<>> /\ pc = "init" /\ root = Undef /\ out = <<>> /\ fin = FALSE

ApplyRepeatedly ==
  /\ pc = "init"
  /\ LET Wrapped(r) ==
           IF r.s # "ret" \/ inp.wrap = "none" THEN r ELSE take(r.m, inp.n, r.val)
         Answer(r) ==
           /\ heap' = r.m.h
           /\ log' = r.m.log
           /\ root' = r.val
           /\ pc' = CASE r.s = "ret" -> "ready" [] r.s = "throw" -> "raised" [] OTHER -> "hung"
     IN Answer(Wrapped(repeatedly(Machine(heap, log), inp.fn)))
  /\ UNCHANGED <<inp, out, fin>>

NextRepeatedly == ApplyRepeatedly \/ ClientNext
SpecRepeatedly == InitRepeatedly /\ [][NextRepeatedly]_vars

\* The calls of f so far, and the items pulled from repeatedly(f), which is
\* object 1 of the heap.
CallsOfF == SelectSeq(log, LAMBDA e : e.ev = "call" /\ e.fn = inp.fn.f)
PulledFromRepeatedly == Yielded(NextsOn(log, 1))

\* C12: when k items have been pulled from repeatedly(f), f has been called
\* k times (not at all before the first pull), and item i is what call i
\* answered.
C12_RepeatedlyCallsOncePerPull ==
  pc # "init" =>
    /\ pc = "ready"
    /\ Len(CallsOfF) = Len(PulledFromRepeatedly)
    /\ \A i \in DOMAIN PulledFromRepeatedly :
         i <= Len(CallsOfF) /\ PulledFromRepeatedly[i] = CallsOfF[i].val

\* ------------------------------------------------- intoMap and intoObj
\* A finite sequence of [key, value] pairs, as an array or as an iterator;
\* the keys are strings and numbers, among them the number 1 and the string
\* "1", and the name __proto__.
PairKeys == {Str(<<"a">>), Str(<<"1">>), Num(1), ProtoKey}
PairValues == {Num(0), Num(1)}
PairLists == SeqUpTo({Arr(<<k, v>>) : k \in PairKeys, v \in PairValues}, MaxLen)

InitInto ==
  /\ \E kind \in {"array", "iterator"}, pairs \in PairLists, into \in {"intoMap", "intoObj"} :
       /\ inp = [kind |-> kind, items |-> pairs, into |-> into]
       /\ heap = IF kind = "iterator" THEN <<ArrayIter(pairs)>> ELSE <<>>
  /\ log = <<>> /\ pc = "init" /\ root = Undef /\ out = <<>> /\ fin = FALSE

ApplyInto ==
  /\ pc = "init"
  /\ LET Answer(r) ==
           /\ heap' = r.m.h
           /\ log' = r.m.log
           /\ root' = r.val
           /\ pc' = CASE r.s = "ret" -> "ready" [] r.s = "throw" -> "raised" [] OTHER -> "hung"
     IN Answer(IF inp.into = "intoMap" THEN intoMap(Machine(heap, log), PipeSource)
               ELSE intoObj(Machine(heap, log), PipeSource))
  /\ UNCHANGED <<inp, out, fin>>

NextInto == ApplyInto
SpecInto == InitInto /\ [][NextInto]_vars

\* The keys of the pairs, and the value of the last pair with key k.
GivenKeys == {inp.items[i].arr[1] : i \in DOMAIN inp.items}
LastValue(k) ==
  LET i == CHOOSE i \in DOMAIN inp.items :
             /\ inp.items[i].arr[1] = k
             /\ \A j \in DOMAIN inp.items : inp.items[j].arr[1] = k => j <= i
  IN inp.items[i].arr[2]

\* The entries of the container returned, and what it holds under key k
\* (map.get(k), obj[k]).
ResultEntries == IF IsMapObj(root) THEN heap[root.mapobj].entries ELSE root.obj
Lookup(k) ==
  IF IsMapObj(root) THEN MapGet(ResultEntries, k) ELSE MapGet(ResultEntries, PropertyKey(k))

SourceDrained == \E i \in DOMAIN log : log[i].ev = "next" /\ log[i].src = 1 /\ log[i].s = "done"

\* C13: intoMap and intoObj return a container with one entry per distinct
\* key of the pairs, holding the value of the last pair with that key, and
\* have pulled the source until it reported done.
C13_LastWriteWins ==
  pc # "init" =>
    /\ pc = "ready"
    /\ Len(ResultEntries) = Cardinality(GivenKeys)
    /\ \A k \in GivenKeys : Lookup(k) = LastValue(k)
    /\ SourceDrained

\* ------------------------------------------------------ every and some
\* A source of numbers: an array, an array iterator, or (for some) the
\* endless iterate(inc, start); the predicate is even.
InitPredicate ==
  /\ \E kind \in {"array", "iterator", "infinite"}, items \in NumArrays, start \in 0..MaxVal :
       /\ kind = "infinite" => items = <<>>
       /\ kind # "infinite" => start = 0
       /\ inp = [kind |-> kind, items |-> items, start |-> start]
       /\ heap = CASE kind = "array" -> <<>>
                   [] kind = "iterator" -> <<ArrayIter(items)>>
                   [] kind = "infinite" -> <<IterateGen(IncFn, Num(start))>>
  /\ log = <<>> /\ pc = "init" /\ root = Undef /\ out = <<>> /\ fin = FALSE

InitEvery == InitPredicate /\ inp.kind # "infinite"

ApplyEvery ==
  /\ pc = "init"
  /\ LET Answer(r) ==
           /\ heap' = r.m.h
           /\ log' = r.m.log
           /\ root' = r.val
           /\ pc' = CASE r.s = "ret" -> "ready" [] r.s = "throw" -> "raised" [] OTHER -> "hung"
     IN Answer(every(Machine(heap, log), EvenFn, PipeSource))
  /\ UNCHANGED <<inp, out, fin>>

NextEvery == ApplyEvery
SpecEvery == InitEvery /\ [][NextEvery]_vars

ApplySome ==
  /\ pc = "init"
  /\ LET Answer(r) ==
           /\ heap' = r.m.h
           /\ log' = r.m.log
           /\ root' = r.val
           /\ pc' = CASE r.s = "ret" -> "ready" [] r.s = "throw" -> "raised" [] OTHER -> "hung"
     IN Answer(some(Machine(heap, log), EvenFn, PipeSource))
  /\ UNCHANGED <<inp, out, fin>>

NextSome == ApplySome
SpecSome == InitPredicate /\ [][NextSome]_vars

IsEven(x) == x.num % 2 = 0

\* What the source (object 1) has yielded so far, and the arguments the
\* predicate has been called with.
PulledFromSource == Yielded(NextsOn(log, 1))
PredicateArgs ==
  LET cs == SelectSeq(log, LAMBDA e : e.ev = "call" /\ e.fn = "even")
  IN [i \in DOMAIN cs |-> cs[i].arg]

\* C14: every(even) on a finite source answers true exactly when every item
\* is even (true on the empty source), and has pulled every item of the
\* source, those after the first odd one too, and then its done signal.
C14_EveryDrainsAndAnswers ==
  pc # "init" =>
    /\ pc = "ready"
    /\ root = Bool(\A i \in DOMAIN inp.items : IsEven(inp.items[i]))
    /\ PulledFromSource = inp.items
    /\ SourceDrained

\* every(even) of [1, 0, 2]: false, and the two items after the 1 pulled.
C14_Witness ==
  /\ pc = "ready" /\ inp.items = <<Num(1), Num(0), Num(2)>>
  /\ root = Bool(FALSE) /\ Len(PulledFromSource) = 3

\* The first k items of the source, and the place of its first even item
\* (0: none).
SourceItems(k) ==
  IF inp.kind = "infinite" THEN [i \in 1..k |-> Num(inp.start + i - 1)]
  ELSE Prefix(inp.items, k)
FirstEven ==
  IF inp.kind = "infinite" THEN (IF inp.start % 2 = 0 THEN 1 ELSE 2)
  ELSE IF \E i \in DOMAIN inp.items : IsEven(inp.items[i])
  THEN CHOOSE i \in DOMAIN inp.items :
         IsEven(inp.items[i]) /\ \A j \in 1..(i - 1) : ~IsEven(inp.items[j])
  ELSE 0

\* C15: some(even) returns (also on the endless source, which holds an even
\* item); with a first even item at place p it answers true, having pulled
\* exactly the first p items, never the done signal, and called the
\* predicate on exactly those; with none it answers false, having pulled
\* every item and the done signal.
C15_SomeShortCircuits ==
  pc # "init" =>
    /\ pc = "ready"
    /\ root = Bool(FirstEven # 0)
    /\ FirstEven # 0 =>
         /\ PulledFromSource = SourceItems(FirstEven)
         /\ ~SourceDrained
    /\ FirstEven = 0 => PulledFromSource = inp.items /\ SourceDrained
    /\ PredicateArgs = PulledFromSource

\* some(even) of [1, 2, 1]: true after two items, the third never pulled.
C15_Witness ==
  /\ pc = "ready" /\ inp.kind = "iterator" /\ inp.items = <<Num(1), Num(2), Num(1)>>
  /\ root = Bool(TRUE) /\ Len(PulledFromSource) = 2 /\ heap[1].idx = 2

\* ------------------------------------------------------------ dropWhile
\* dropWhile(even) applied to a source of numbers, then pulled by the client.
ApplyDropWhile ==
  /\ pc = "init"
  /\ LET r == dropWhile(Machine(heap, log), EvenFn, PipeSource) IN
       heap' = r.m.h /\ log' = r.m.log /\ root' = r.val
  /\ pc' = "ready"
  /\ UNCHANGED <<inp, out, fin>>

NextDropWhile == ApplyDropWhile \/ ClientNext
SpecDropWhile == InitPredicate /\ [][NextDropWhile]_vars

\* The place of the first item of the source for which even fails (0: none).
FirstOdd ==
  IF inp.kind = "infinite" THEN (IF inp.start % 2 = 0 THEN 2 ELSE 1)
  ELSE IF \E i \in DOMAIN inp.items : ~IsEven(inp.items[i])
  THEN CHOOSE i \in DOMAIN inp.items :
         ~IsEven(inp.items[i]) /\ \A j \in 1..(i - 1) : IsEven(inp.items[j])
  ELSE 0

\* The first k items of the suffix of the source that starts at that place.
SuffixFromFirstOdd(k) ==
  IF inp.kind = "infinite" THEN [i \in 1..k |-> Num(inp.start + FirstOdd + i - 2)]
  ELSE IF FirstOdd = 0 THEN <<>>
  ELSE Prefix(SubSeq(inp.items, FirstOdd, Len(inp.items)), k)

\* C16: dropWhile(pred) pulls nothing and calls nothing until it is first
\* pulled; it yields the source from the first item for which pred fails
\* on, in order, the later items for which pred holds included, and then
\* reports done; when pred holds for every item it yields nothing.
C16_DropWhileYieldsSuffix ==
  pc # "init" =>
    /\ pc = "ready"
    /\ ClientNexts = 0 => log = <<>>
    /\ out = SuffixFromFirstOdd(ClientNexts)
    /\ inp.kind = "infinite" => ~fin
    /\ inp.kind # "infinite" =>
         (fin <=> ClientNexts > Len(SuffixFromFirstOdd(Len(inp.items))))

\* dropWhile(even) of [0, 1, 2] drained: 1 and then the even 2.
C16_Witness ==
  /\ pc = "ready" /\ fin /\ inp.items = <<Num(0), Num(1), Num(2)>>
  /\ out = <<Num(1), Num(2)>>

\* -------------------------------------------------------------- groupBy
\* groupBy(key) applied to a finite source of numbers; the client pulls the
\* [key, items] pairs from the iterator it returns.  The keys are numbers
\* (i % 2) or booleans (even).
InitGroupBy ==
  /\ \E kind \in {"array", "iterator"}, items \in NumArrays, key \in {ParityFn, EvenFn} :
       /\ inp = [kind |-> kind, items |-> items, key |-> key]
       /\ heap = IF kind = "iterator" THEN <<ArrayIter(items)>> ELSE <<>>
  /\ log = <<>> /\ pc = "init" /\ root = Undef /\ out = <<>> /\ fin = FALSE

ApplyGroupBy ==
  /\ pc = "init"
  /\ LET Answer(r) ==
           /\ heap' = r.m.h
           /\ log' = r.m.log
           /\ root' = r.val
           /\ pc' = CASE r.s = "ret" -> "ready" [] r.s = "throw" -> "raised" [] OTHER -> "hung"
     IN Answer(groupBy(Machine(heap, log), inp.key, PipeSource))
  /\ UNCHANGED <<inp, out, fin>>

NextGroupBy == ApplyGroupBy \/ ClientNext
SpecGroupBy == InitGroupBy /\ [][NextGroupBy]_vars

KeyOf(x) == Result(<<>>, inp.key, x)

\* The places of the source where a key occurs for the first time.
FirstPlaces ==
  SelectSeq([i \in DOMAIN inp.items |-> i],
            LAMBDA i : \A j \in 1..(i - 1) : KeyOf(inp.items[j]) # KeyOf(inp.items[i]))

\* Group g: the g-th key to occur, with the items of that key in source order.
Bucket(k) == SelectSeq(inp.items, LAMBDA x : KeyOf(x) = k)
ExpectedGroups ==
  [g \in DOMAIN FirstPlaces |->
     Arr(<<KeyOf(inp.items[FirstPlaces[g]]), Arr(Bucket(KeyOf(inp.items[FirstPlaces[g]])))>>)]

FreqItems == {Num(0), Str(<<"a">>), Str(<<"b">>)}
FreqArrays == SeqUpTo(FreqItems, MaxLen)

InitFrequencies ==
  /\ \E a \in FreqArrays, b \in FreqArrays : inp = <<a, b>>
  /\ heap = <<>> /\ log = <<>> /\ pc = "init" /\ fin = FALSE
  /\ root = Arr(<<>>)
  /\ out = <<Undef, Undef>>

\* frequencies(inp[i]), i the number of this call
CallFrequencies ==
  /\ Len(root.arr) < Len(inp)
  /\ LET Answer(r) ==
           /\ heap' = r.m.h
           /\ log' = r.m.log
           /\ root' = Arr(Append(root.arr, r.val))
     IN Answer(frequencies(Machine(heap, log), Arr(inp[Len(root.arr) + 1])))
  /\ pc' = "ready"
  /\ UNCHANGED <<inp, out, fin>>

\* intoArray(result) of the i-th call's result
MaterializeFrequencies ==
  \E i \in DOMAIN root.arr :
    /\ out[i] = Undef
    /\ LET Answer(r) ==
             /\ heap' = r.m.h
             /\ log' = r.m.log
             /\ out' = [out EXCEPT ![i] = r.val]
       IN Answer(intoArray(Machine(heap, log), root.arr[i]))
    /\ UNCHANGED <<inp, pc, root, fin>>

NextFrequencies == CallFrequencies \/ MaterializeFrequencies
SpecFrequencies == InitFrequencies /\ [][NextFrequencies]_vars

Occurrences(items, x) == Len(SelectSeq(items, LAMBDA y : y = x))
FirstOccurrences(items) ==
  SelectSeq([i \in DOMAIN items |-> i],
            LAMBDA i : \A j \in 1..(i - 1) : items[j] # items[i])
ExpectedCounts(items) ==
  [g \in DOMAIN FirstOccurrences(items) |->
     Arr(<<items[FirstOccurrences(items)[g]],
           Num(Occurrences(items, items[FirstOccurrences(items)[g]]))>>)]

RECURSIVE SumCounts(_)
SumCounts(pairs) ==
  IF pairs = <<>> THEN 0 ELSE pairs[1].arr[2].num + SumCounts(Tail(pairs))

\* C18: the result of every call of frequencies holds one [item, count]
\* pair per distinct item of that call's own source, count being the number
\* of occurrences of the item in it; the counts sum to the length of the
\* source, whatever the other call has counted.
C18_FrequenciesCountsPerCall ==
  \A i \in DOMAIN out :
    out[i] # Undef =>
      /\ out[i] = Arr(ExpectedCounts(inp[i]))
      /\ SumCounts(out[i].arr) = Len(inp[i])
      /\ \A g, h \in DOMAIN out[i].arr : g # h => out[i].arr[g].arr[1] # out[i].arr[h].arr[1]

\* frequencies(["a", "b", "a"]) and frequencies(["a", 0]), both results
\* materialized.
C18_Witness ==
  /\ inp = <<(<<Str(<<"a">>), Str(<<"b">>), Str(<<"a">>)>>), (<<Str(<<"a">>), Num(0)>>)>>
  /\ out = <<Arr(<<Arr(<<Str(<<"a">>), Num(2)>>), Arr(<<Str(<<"b">>), Num(1)>>)>>),
             Arr(<<Arr(<<Str(<<"a">>), Num(1)>>), Arr(<<Num(0), Num(1)>>)>>)>>

\* --------------------------------------------------------------- faults
\* pipe(source, stage..., terminal) where the callbacks raise when they are
\* handed the value `at`: the stages are lazy, the terminal operator drains
\* them when pipe applies it.
FaultStages(at) ==
  {MapOp(IncFn), MapOp(FaultyFn(IncFn, at)), TapOp(FaultyFn(NoteFn, at)),
   FilterOp(FaultyFn(EvenFn, at)), RemoveOp(FaultyFn(EvenFn, at)),
   DropWhileOp(FaultyFn(EvenFn, at))}
Terminals(at) ==
  {IntoArrayOp, FirstOp, FrequenciesOp, ReduceOp(SumFn, Num(0)),
   ReduceOp(FaultyFn(SumFn, at), Num(0)), EveryOp(FaultyFn(EvenFn, at)),
   SomeOp(FaultyFn(EvenFn, at)), GroupByOp(FaultyFn(ParityFn, at))}

InitFault ==
  /\ \E kind \in {"array", "iterator"}, len \in 0..MaxLen, at \in Nums :
       \E stages \in SeqUpTo(FaultStages(at), MaxOps - 1), terminal \in Terminals(at) :
         /\ inp = [kind |-> kind, items |-> Upto(len), ops |-> Append(stages, terminal)]
         /\ heap = IF kind = "iterator" THEN <<ArrayIter(Upto(len))>> ELSE <<>>
  /\ log = <<>> /\ pc = "init" /\ root = Undef /\ out = <<>> /\ fin = FALSE

SpecFault == InitFault /\ [][NextPipe]_vars

\* The calls of a callback that raised.
Faults == {i \in DOMAIN log : log[i].ev = "call" /\ log[i].s = "throw"}

\* C19: the terminal operation raises exactly when a callback has raised
\* during it; it then returns no value, and after the callback's fault the
\* history holds no call of a callback and no next() on the source: the
\* only events are the pending next() calls of the stages, each ending in
\* the same fault.
C19_CallbackFaultPropagates ==
  pc # "init" =>
    /\ pc \in {"ready", "raised"}
    /\ pc = "raised" <=> Faults # {}
    /\ pc = "raised" =>
         /\ root = Undef /\ out = <<>>
         /\ \A i \in Faults : \A j \in DOMAIN log :
              j > i => /\ log[j].ev = "next"
                       /\ log[j].s = "throw"
                       /\ log[j].src # 1

\* pipe([0, 1, 2], map(faulty inc), intoArray) with the fault at 1: the
\* callback answers for 0 and raises for 1, and 2 is never pulled.
C19_Witness ==
  /\ pc = "raised"
  /\ inp.items = Upto(3)
  /\ inp.ops = <<MapOp(FaultyFn(IncFn, Num(1))), IntoArrayOp>>
  /\ Len(SelectSeq(log, LAMBDA e : e.ev = "call")) = 2
  /\ Len(NextsOn(log, 1)) = 2

\* ----------------------------------------------------------- early exit
\* One pull iterator X handed to first or to some(even), and pulled by the
\* client afterwards.  X is an array iterator, range(len) (the library's
\* take(len)(iterate(i => i + 1, 0))), or map(inc) of an array iterator.
InitEarlyExit ==
  /\ \E kind \in {"array", "range", "map"}, items \in NumArrays :
       /\ kind = "range" => items = Upto(Len(items))
       /\ inp = [kind |-> kind, items |-> items]
       /\ heap = CASE kind = "array" -> <<ArrayIter(items)>>
                   [] kind = "range" ->
                        <<IterateGen(IncFn, Num(0)), TakeGen(Len(items), Ref(1))>>
                   [] kind = "map" -> <<ArrayIter(items), ForOfGen("map", IncFn, Ref(1))>>
  /\ log = <<>> /\ pc = "init" /\ root = Undef /\ out = <<>> /\ fin = FALSE

EarlyId == IF inp.kind = "array" THEN 1 ELSE 2

\* The client keeps X, whatever the call answers.
CallEarly(r) ==
  /\ pc = "init"
  /\ heap' = r.m.h
  /\ log' = r.m.log
  /\ root' = Ref(EarlyId)
  /\ pc' = CASE r.s = "ret" -> "ready" [] r.s = "throw" -> "raised" [] OTHER -> "hung"
  /\ UNCHANGED <<inp, out, fin>>

FirstOfShared == CallEarly(first(Machine(heap, log), Ref(EarlyId)))
SomeOfShared == CallEarly(some(Machine(heap, log), EvenFn, Ref(EarlyId)))

NextEarlyExit == FirstOfShared \/ SomeOfShared \/ ClientNext
SpecEarlyExit == InitEarlyExit /\ [][NextEarlyExit]_vars

\* first has returned an item; some has returned true.
FirstReturned ==
  \E i \in DOMAIN log : log[i].ev = "next" /\ log[i].by = Fn("first") /\ log[i].s = "yield"
SomeReturnedTrue ==
  \E i \in DOMAIN log : log[i].ev = "call" /\ log[i].by = Fn("some") /\ log[i].val = Bool(TRUE)

\* The items X has to give, and those the call took before it returned.
EarlyItems ==
  IF inp.kind = "map" THEN [i \in DOMAIN inp.items |-> Num(inp.items[i].num + 1)]
  ELSE inp.items
TakenByCall ==
  Len(SelectSeq(log, LAMBDA e : e.ev = "next" /\ e.src = EarlyId /\ e.by # Client
                                 /\ e.s = "yield"))
EarlyRest == SubSeq(EarlyItems, TakenByCall + 1, Len(EarlyItems))
EarlyClosed == heap[EarlyId].k # "array" /\ heap[EarlyId].st = "done"

\* C21: after first(X) has returned an item, or some(pred)(X) has returned
\* true, X is not closed, and the client's later pulls on X yield the items
\* after the ones the call consumed, in order, and then done.
C21_EarlyExitLeavesIteratorOpen ==
  (pc # "init" /\ (FirstReturned \/ SomeReturnedTrue)) =>
    /\ pc = "ready"
    /\ ClientNexts = 0 => ~EarlyClosed
    /\ out = Prefix(EarlyRest, ClientNexts)
    /\ fin <=> ClientNexts > Len(EarlyRest)

\* The same for an array iterator only, which has no return method.
C21_ArrayIteratorStaysOpen ==
  inp.kind = "array" => C21_EarlyExitLeavesIteratorOpen

\* ------------------------------------------------- cycle of any array
\* take(k)(cycle(S)) for every array S up to MaxLen items, the empty one
\* included.
InitCycleAny ==
  /\ \E S \in NumArrays, n \in 0..MaxN : inp = [S |-> S, n |-> n]
  /\ heap = <<>>
  /\ log = <<>> /\ pc = "init" /\ root = Undef /\ out = <<>> /\ fin = FALSE

SpecCycleAny == InitCycleAny /\ [][NextCycle]_vars

\* C22: every pull on take(k)(cycle(S)) returns, and the pulls after the
\* k-th report done: draining it terminates, for the empty array too.
C22_CycleDrainTerminates ==
  pc # "init" =>
    /\ pc = "ready"
    /\ ClientNexts > inp.n => fin

\* The same for the arrays that have an item.
C22_NonEmptyCycleTerminates ==
  inp.S # <<>> => C22_CycleDrainTerminates

====
